---- MODULE Spec2Model ----
(***************************************************************************)
(* A model of mancala-discord: the Mancala rule engine, the client of the  *)
(* external search engine, and the bookkeeping of challenges and matches:  *)
(*   engine.py               (EngineInterface: search, read_line,          *)
(*                            parse_gamestate, enqueue_output)             *)
(*   match.py                (Match.engine_reply, MatchManager)            *)
(*   game_logic/ruleset.py   (Ruleset, DefaultRuleset)                     *)
(*   game_logic/board.py     (Board: __getitem__, __setitem__, copy,       *)
(*                            __str__)                                     *)
(*   game_logic/gamestate.py (Gamestate: play_move, _play_move,            *)
(*                            _animate_move, _do_capture, _check_terminal, *)
(*                            terminate, score, index helpers)             *)
(*                                                                         *)
(* A Board keeps lists of Seed tokens; only the lengths of those lists are *)
(* ever read by the rule engine, so a hole, a store and the in-hand buffer *)
(* are modelled by their lengths.  Optional[int] fields are modelled as    *)
(* sets of at most one element: None is {} and a value v is {v}.           *)
(*                                                                         *)
(* The Gamestate reads every rule from its _rule_set dictionary.  The      *)
(* number of holes is fixed at 6 per side in the code (Board.__init__ and  *)
(* play_move hard-code 6), so the model keeps it fixed; the five rule      *)
(* flags and seeds_per_hole are the fields of the rule_set variable and    *)
(* are drawn, once, by Init.                                               *)
(***************************************************************************)
EXTENDS Integers, Sequences, FiniteSets, TLC

VARIABLES
    rule_set,        \* Gamestate._rule_set: the flags and seeds_per_hole
    board,           \* Gamestate._board: holes, store, buffer (as lengths)
    current_player,  \* Gamestate._current_player
    game_over,       \* Gamestate._game_over
    result,          \* Gamestate._result    (Optional: {} or {r})
    score_1,         \* Gamestate._score_1   (Optional: {} or {n})
    score_2,         \* Gamestate._score_2   (Optional: {} or {n})
    board_stack,     \* Gamestate._board_stack, its most recent entries
    last,            \* the most recent call on the Gamestate and how it ended
    calls,           \* number of state-changing calls made so far
    returned,        \* what the most recent index or Board query returned
    output_queue,    \* EngineInterface.output_queue: the lines not yet read
    stream_open,     \* the engine's stdout is still open (reader thread alive)
    search,          \* the search call in flight: its position and arguments
    sent,            \* the last line written to the engine's stdin
    written,         \* the lines the current or latest search call has written
    search_last,     \* how the most recent finished search ended
    searches,        \* number of search calls made so far
    player_dict,     \* MatchManager.player_dict: key -> the object it maps to
    matches,         \* MatchManager.matches
    objects,         \* the Challenge and Match objects created so far
    manager_last,    \* the most recent call on the MatchManager
    view,            \* the MoveView shown, with the players of its Match
    presses          \* the button interactions on it: position and outcome

vars == <<rule_set, board, current_player, game_over, result, score_1, score_2,
          board_stack, last, calls, returned,
          output_queue, stream_open, search, sent, written, search_last,
          searches,
          player_dict, matches, objects, manager_last,
          view, presses>>

game_vars == <<rule_set, board, current_player, game_over, result, score_1,
               score_2, board_stack, last, calls, returned>>

engine_vars == <<output_queue, stream_open, search, sent, written, search_last,
                 searches>>

manager_vars == <<player_dict, matches, objects, manager_last>>

view_vars == <<view, presses>>

gs_vars == <<board, current_player, game_over, result, score_1, score_2>>

----------------------------------------------------------------------------
(* Bounds of the model *)

\* seeds_per_hole of the rulesets Init draws, besides the default ruleset
MaxSeedsPerHole == 1

\* state-changing calls (successful play_move, terminate) explored per game
MaxCalls == 3

\* legal moves played per game when only legal moves are played
MaxGameCalls == 7

\* legal moves played per game when every ruleset is played
MaxRuleCalls == 4

\* sowing segments followed within one move (relay chain)
MaxSegments == 16

\* entries of _board_stack kept (the most recent ones)
MaxStack == 2

\* legal moves played per game from the default position
MaxDefaultCalls == 5

\* seeds_per_hole of the games whose first moves lap the board, and the
\* moves played in them
LapSeedsPerHole == 13

MaxLapCalls == 2

\* moves played in the games on which the index helpers are called
MaxIndexCalls == 3

\* legal moves played per game when allow_multiple_laps is false
MaxNoLapCalls == 5

\* legal moves played before the move prompt is built
MaxViewCalls == 1

\* button interactions on one move prompt
MaxPresses == 2

\* Board.__setitem__ calls made on one Board, and the values they set
MaxBoardCalls == 2

MaxSetValue == 2

\* lines held by output_queue at one time
MaxQueue == 1

\* search calls made on one EngineInterface
MaxSearches == 2

\* |engine_depth| of the search calls tried
MaxDepth == 2

\* users that call the MatchManager
MaxUsers == 3

\* Challenge and Match objects created by one MatchManager
MaxObjects == 3

----------------------------------------------------------------------------
(* ruleset.py *)

NUMBER_OF_HOLES_PER_SIDE == 6

NUMBER_OF_TOTAL_HOLES == 14

DefaultSeedsPerHole == 4

PLAYER_TO_STORE_INDEX(player) == IF player = 0 THEN 6 ELSE 13

StoreIndices == {PLAYER_TO_STORE_INDEX(0), PLAYER_TO_STORE_INDEX(1)}

DefaultRuleset ==
    [allow_captures       |-> TRUE,
     capture_both         |-> TRUE,
     capture_on_one_cycle |-> FALSE,
     do_relay_sowing      |-> FALSE,
     allow_multiple_laps  |-> TRUE,
     seeds_per_hole       |-> DefaultSeedsPerHole]

\* The values a Ruleset dictionary can take in the model.
Rulesets ==
    [allow_captures       : BOOLEAN,
     capture_both         : BOOLEAN,
     capture_on_one_cycle : BOOLEAN,
     do_relay_sowing      : BOOLEAN,
     allow_multiple_laps  : BOOLEAN,
     seeds_per_hole       : 0..MaxSeedsPerHole]
    \cup {DefaultRuleset}

\* Ruleset(**fields): a TypedDict call returns the dictionary of its keyword
\* arguments as given
Ruleset(fields) == fields

\* The dictionaries tried as arguments of Ruleset: those of Rulesets and
\* the same with a negative seeds_per_hole
RulesetInputs ==
    Rulesets
    \cup {[rs EXCEPT !.seeds_per_hole = 0 - n] :
             rs \in Rulesets, n \in 1..MaxSeedsPerHole}

----------------------------------------------------------------------------
(* board.py *)

Sides == {0, 1}

HoleRange == 0..5

\* the number of turns of `for z in range(n)`
RangeLen(n) == IF n < 0 THEN 0 ELSE n

\* Board.__init__: six holes per side, each with seeds_per_hole seeds,
\* empty stores, empty buffer.  `raised` records that a set had to pop from
\* an empty buffer (IndexError).
NewBoard(rs) ==
    [holes  |-> [x \in Sides |-> [y \in HoleRange |-> RangeLen(rs.seeds_per_hole)]],
     store  |-> [x \in Sides |-> 0],
     buffer |-> 0,
     raised |-> FALSE]

IndexInRange(hole_index) ==
    ~(hole_index < 0 \/ hole_index >= NUMBER_OF_TOTAL_HOLES)

\* The side an absolute index belongs to: hole_index > PLAYER_TO_STORE_INDEX[0]
SideOf(hole_index) == IF hole_index > PLAYER_TO_STORE_INDEX(0) THEN 1 ELSE 0

RelOf(hole_index) == hole_index % (NUMBER_OF_HOLES_PER_SIDE + 1)

\* __getitem__ with the side taken as hole_index >= PLAYER_TO_STORE_INDEX[0]
GetItem_side_ge(b, hole_index) ==
    IF RelOf(hole_index) = NUMBER_OF_HOLES_PER_SIDE
    THEN b.store[IF hole_index >= PLAYER_TO_STORE_INDEX(0) THEN 1 ELSE 0]
    ELSE b.holes[SideOf(hole_index)][RelOf(hole_index)]

\* Board.__getitem__ for an index in range: the length of the hole or store
GetItem(b, hole_index) ==
    IF RelOf(hole_index) = NUMBER_OF_HOLES_PER_SIDE
    THEN b.store[SideOf(hole_index)]
    ELSE b.holes[SideOf(hole_index)][RelOf(hole_index)]

\* the board with the list addressed by hole_index given length n
WithLen(b, hole_index, n) ==
    IF RelOf(hole_index) = NUMBER_OF_HOLES_PER_SIDE
    THEN [b EXCEPT !.store[SideOf(hole_index)] = n]
    ELSE [b EXCEPT !.holes[SideOf(hole_index)][RelOf(hole_index)] = n]

\* Board.__setitem__ with the seeds taken off a hole dropped instead of
\* appended to the buffer (line 150)
SetItem_drop(b, hole_index, value) ==
    LET len == GetItem(b, hole_index) IN
    IF value > len
    THEN LET need == value - len
             take == IF need <= b.buffer THEN need ELSE b.buffer
         IN  [WithLen(b, hole_index, len + take) EXCEPT
                 !.buffer = b.buffer - take,
                 !.raised = b.raised \/ need > b.buffer]
    ELSE WithLen(b, hole_index, value)

\* Board.__setitem__ for an index in range: seeds move between the hole and
\* the buffer until the hole holds `value`; popping an empty buffer raises.
SetItem(b, hole_index, value) ==
    LET len == GetItem(b, hole_index) IN
    IF value > len
    THEN LET need == value - len
             take == IF need <= b.buffer THEN need ELSE b.buffer
         IN  [WithLen(b, hole_index, len + take) EXCEPT
                 !.buffer = b.buffer - take,
                 !.raised = b.raised \/ need > b.buffer]
    ELSE [WithLen(b, hole_index, value) EXCEPT !.buffer = b.buffer + (len - value)]

\* Board.__getitem__ (lines 126-135).  `raise InvalidMove` builds the
\* exception without the argument InvalidMove.__init__ requires: the call
\* raises TypeError.
getitem(b, hole_index) ==
    IF ~IndexInRange(hole_index)
    THEN [outcome |-> "TypeError", value |-> {}]
    ELSE [outcome |-> "ok", value |-> {GetItem(b, hole_index)}]

\* Board.__setitem__ (lines 137-150) on a board whose earlier calls have
\* returned
setitem(b, hole_index, value) ==
    IF ~IndexInRange(hole_index)
    THEN [outcome |-> "TypeError", board |-> b]
    ELSE LET b1 == SetItem(b, hole_index, value)
         IN  [outcome |-> IF b1.raised THEN "IndexError" ELSE "ok",
              board |-> [b1 EXCEPT !.raised = FALSE]]

\* Board.get_holes
get_holes(b, side) == b.holes[side]

\* Board.copy: a deep copy, a value that shares nothing with the live board
copy(b) == b

\* class Board defines no get_store method: the calls
\* self._board.get_store(0) and self._board.get_store(1) of
\* Gamestate._check_terminal raise AttributeError.
BoardHasGetStore == FALSE

----------------------------------------------------------------------------
(* Optional values *)

None == {}

Some(v) == {v}

----------------------------------------------------------------------------
(* gamestate.py: index helpers *)

\* relative_index_to_absolute adding NUMBER_OF_HOLES_PER_SIDE only
relative_index_to_absolute_short(cp, relative_hole_index) ==
    IF cp = 1
    THEN relative_hole_index + NUMBER_OF_HOLES_PER_SIDE
    ELSE relative_hole_index

\* Gamestate.relative_index_to_absolute (reads self._current_player)
relative_index_to_absolute(cp, relative_hole_index) ==
    IF cp = 1
    THEN relative_hole_index + NUMBER_OF_HOLES_PER_SIDE + 1
    ELSE relative_hole_index

\* Gamestate.absolute_index_to_relative
absolute_index_to_relative(absolute_hole_index) ==
    absolute_hole_index % (NUMBER_OF_HOLES_PER_SIDE + 1)

\* Gamestate.is_valid_move (reads self.current_player)
is_valid_move(cp, absolute_hole_index) ==
    LET l_bound == IF cp # 0 THEN PLAYER_TO_STORE_INDEX(0) + 1 ELSE 0
        r_bound == l_bound + NUMBER_OF_HOLES_PER_SIDE
    IN  l_bound <= absolute_hole_index /\ absolute_hole_index <= r_bound

\* valid_mask without the len(hole) > 0 test
valid_mask_all(b, cp) == [m \in HoleRange |-> TRUE]

\* Gamestate.valid_mask
valid_mask(b, cp) == [m \in HoleRange |-> get_holes(b, cp)[m] > 0]

\* Gamestate.next_player
next_player(cp) == 1 - cp

----------------------------------------------------------------------------
(* gamestate.py: sowing, capture, relay *)

\* the while loop of _play_move without the `continue` of lines 220-221: a
\* seed is dropped in the opponent's store as in any other index
RECURSIVE Sow_no_skip(_, _, _, _, _)
Sow_no_skip(b, hole_index, seed_count, player, first_cycle) ==
    IF seed_count > 0
    THEN LET h1 == hole_index + 1
             h2 == IF h1 = NUMBER_OF_TOTAL_HOLES THEN 0 ELSE h1
             fc == IF h2 = PLAYER_TO_STORE_INDEX(player) THEN FALSE ELSE first_cycle
             b1 == SetItem(b, h2, GetItem(b, h2) + 1)
         IN  IF b1.raised
             THEN [board |-> b1, hole_index |-> h2, first_cycle |-> fc]
             ELSE Sow_no_skip(b1, h2, seed_count - 1, player, fc)
    ELSE [board |-> b, hole_index |-> hole_index, first_cycle |-> first_cycle]

\* the while loop of _play_move wrapping to index 0 two steps late, so that
\* the index after 13 is 1
RECURSIVE Sow_wrap_late(_, _, _, _, _)
Sow_wrap_late(b, hole_index, seed_count, player, first_cycle) ==
    IF seed_count > 0
    THEN LET h1 == hole_index + 1
             h2 == IF h1 = NUMBER_OF_TOTAL_HOLES THEN 1 ELSE h1
             fc == IF h2 = PLAYER_TO_STORE_INDEX(player) THEN FALSE ELSE first_cycle
             b1 == SetItem(b, h2, GetItem(b, h2) + 1)
         IN  IF h2 = PLAYER_TO_STORE_INDEX(1 - player)
             THEN Sow_wrap_late(b, h2, seed_count, player, fc)
             ELSE IF b1.raised
             THEN [board |-> b1, hole_index |-> h2, first_cycle |-> fc]
             ELSE Sow_wrap_late(b1, h2, seed_count - 1, player, fc)
    ELSE [board |-> b, hole_index |-> hole_index, first_cycle |-> first_cycle]

\* The while loop of _play_move (lines 212-224): one seed per visited index,
\* the opponent's store skipped, first_cycle cleared at the mover's store.
\* A set that raises (IndexError, an empty buffer) ends the loop there.
RECURSIVE Sow(_, _, _, _, _)
Sow(b, hole_index, seed_count, player, first_cycle) ==
    IF seed_count > 0
    THEN LET h1 == hole_index + 1
             h2 == IF h1 = NUMBER_OF_TOTAL_HOLES THEN 0 ELSE h1
             fc == IF h2 = PLAYER_TO_STORE_INDEX(player) THEN FALSE ELSE first_cycle
             b1 == SetItem(b, h2, GetItem(b, h2) + 1)
         IN  IF h2 = PLAYER_TO_STORE_INDEX(1 - player)
             THEN Sow(b, h2, seed_count, player, fc)
             ELSE IF b1.raised
             THEN [board |-> b1, hole_index |-> h2, first_cycle |-> fc]
             ELSE Sow(b1, h2, seed_count - 1, player, fc)
    ELSE [board |-> b, hole_index |-> hole_index, first_cycle |-> first_cycle]

\* _do_capture without line 197 (seeds += self._board[hole_index]): the
\* landed seed is taken off the hole and never reaches the store
do_capture_drop_landed(rs, b, cp, hole_index, side) ==
    LET opposite_hole_index == (2 * PLAYER_TO_STORE_INDEX(0)) - hole_index
        seeds == GetItem(b, opposite_hole_index)
    IN  IF ~(is_valid_move(cp, hole_index) /\ seeds # 0)
        THEN [captured |-> FALSE, board |-> b, current_player |-> cp]
        ELSE LET b1 == SetItem(b, opposite_hole_index, 0)
                 b2 == IF rs.capture_both THEN SetItem(b1, hole_index, 0) ELSE b1
                 st == PLAYER_TO_STORE_INDEX(side)
             IN  [captured |-> TRUE,
                  board |-> SetItem(b2, st, GetItem(b2, st) + seeds),
                  current_player |-> next_player(cp)]

\* _do_capture without lines 196-198: capture_both is ignored and the landed
\* seed stays in its hole
do_capture_opposite_only(rs, b, cp, hole_index, side) ==
    LET opposite_hole_index == (2 * PLAYER_TO_STORE_INDEX(0)) - hole_index
        seeds == GetItem(b, opposite_hole_index)
    IN  IF ~(is_valid_move(cp, hole_index) /\ seeds # 0)
        THEN [captured |-> FALSE, board |-> b, current_player |-> cp]
        ELSE LET b1 == SetItem(b, opposite_hole_index, 0)
                 st == PLAYER_TO_STORE_INDEX(side)
             IN  [captured |-> TRUE,
                  board |-> SetItem(b1, st, GetItem(b1, st) + seeds),
                  current_player |-> next_player(cp)]

\* _do_capture without line 192 (self.next_player()): the capturing player
\* keeps the turn
do_capture_keep_turn(rs, b, cp, hole_index, side) ==
    LET opposite_hole_index == (2 * PLAYER_TO_STORE_INDEX(0)) - hole_index
        seeds == GetItem(b, opposite_hole_index)
    IN  IF ~(is_valid_move(cp, hole_index) /\ seeds # 0)
        THEN [captured |-> FALSE, board |-> b, current_player |-> cp]
        ELSE LET b1 == SetItem(b, opposite_hole_index, 0)
                 seeds2 == IF rs.capture_both THEN seeds + GetItem(b1, hole_index) ELSE seeds
                 b2 == IF rs.capture_both THEN SetItem(b1, hole_index, 0) ELSE b1
                 st == PLAYER_TO_STORE_INDEX(side)
             IN  [captured |-> TRUE,
                  board |-> SetItem(b2, st, GetItem(b2, st) + seeds2),
                  current_player |-> cp]

\* _do_capture without the is_valid_move test of line 189: a landing in
\* the opponent's row captures too
do_capture_any_side(rs, b, cp, hole_index, side) ==
    LET opposite_hole_index == (2 * PLAYER_TO_STORE_INDEX(0)) - hole_index
        seeds == GetItem(b, opposite_hole_index)
    IN  IF seeds = 0
        THEN [captured |-> FALSE, board |-> b, current_player |-> cp]
        ELSE LET b1 == SetItem(b, opposite_hole_index, 0)
                 seeds2 == IF rs.capture_both THEN seeds + GetItem(b1, hole_index) ELSE seeds
                 b2 == IF rs.capture_both THEN SetItem(b1, hole_index, 0) ELSE b1
                 st == PLAYER_TO_STORE_INDEX(side)
             IN  [captured |-> TRUE,
                  board |-> SetItem(b2, st, GetItem(b2, st) + seeds2),
                  current_player |-> next_player(cp)]

\* Gamestate._do_capture
do_capture(rs, b, cp, hole_index, side) ==
    LET opposite_hole_index == (2 * PLAYER_TO_STORE_INDEX(0)) - hole_index
        seeds == GetItem(b, opposite_hole_index)
    IN  IF ~(is_valid_move(cp, hole_index) /\ seeds # 0)
        THEN [captured |-> FALSE, board |-> b, current_player |-> cp]
        ELSE LET b1 == SetItem(b, opposite_hole_index, 0)
                 seeds2 == IF rs.capture_both THEN seeds + GetItem(b1, hole_index) ELSE seeds
                 b2 == IF rs.capture_both THEN SetItem(b1, hole_index, 0) ELSE b1
                 st == PLAYER_TO_STORE_INDEX(side)
             IN  [captured |-> TRUE,
                  board |-> SetItem(b2, st, GetItem(b2, st) + seeds2),
                  current_player |-> next_player(cp)]

\* How a move resolution ended: the board and player it leaves, the final
\* landing index, the branch taken, the number of sowing segments, and the
\* board as it was when the last seed had landed (s.board).
Resolved(outcome, s, b, cp, branch, segment) ==
    [outcome |-> outcome, board |-> b, current_player |-> cp,
     hole_index |-> s.hole_index, branch |-> branch, segments |-> segment,
     first_cycle |-> s.first_cycle, landed |-> s.board]

\* the final self.next_player(); return self._board (lines 243-244)
SwapPlayer(s, cp, segment) ==
    Resolved("ok", s, s.board, next_player(cp), "swap", segment)

\* an own-store landing that always passes the turn
LandOwnStore_swap(rs, s, cp, segment) == SwapPlayer(s, cp, segment)

\* an own-store landing that always keeps the turn
LandOwnStore_again(rs, s, cp, segment) ==
    Resolved("ok", s, s.board, cp, "again", segment)

\* the last seed landed in the mover's own store (lines 226-228)
LandOwnStore(rs, s, cp, segment) ==
    IF rs.allow_multiple_laps
    THEN Resolved("ok", s, s.board, cp, "again", segment)
    ELSE SwapPlayer(s, cp, segment)

\* the landing in an empty hole with capture_on_one_cycle ignored
LandEmpty_any_cycle(rs, s, cp, segment) ==
    LET cap == do_capture(rs, s.board, cp, s.hole_index, cp)
    IN  IF rs.allow_captures /\ cap.captured
        THEN Resolved("ok", s, cap.board, cap.current_player, "capture", segment)
        ELSE SwapPlayer(s, cp, segment)

\* the last seed landed in a hole that now holds one seed (lines 229-237)
LandEmpty(rs, s, cp, segment) ==
    LET cap == do_capture(rs, s.board, cp, s.hole_index, cp)
    IN  IF rs.allow_captures
           /\ (rs.capture_on_one_cycle => s.first_cycle)
           /\ cap.captured
        THEN Resolved("ok", s, cap.board, cap.current_player, "capture", segment)
        ELSE SwapPlayer(s, cp, segment)

\* Gamestate._play_move.  A relay re-entry with the same argument on an
\* unchanged board recurses forever (RecursionError).
RECURSIVE play_move_rec(_, _, _, _, _)
play_move_rec(rs, b, cp, relative_hole_index, segment) ==
    LET player == cp
        start == relative_index_to_absolute(cp, relative_hole_index)
        seed_count == GetItem(b, start)
        s == Sow(SetItem(b, start, 0), start, seed_count, player, TRUE)
        h == s.hole_index
    IN  IF h = PLAYER_TO_STORE_INDEX(player)
        THEN LandOwnStore(rs, s, cp, segment)
        ELSE IF GetItem(s.board, h) = 1
        THEN LandEmpty(rs, s, cp, segment)
        ELSE IF rs.do_relay_sowing
        THEN LET next_rel == absolute_index_to_relative(h)
             IN  IF next_rel = relative_hole_index /\ s.board = b
                 THEN Resolved("RecursionError", s, s.board, cp, "relay", segment)
                 ELSE IF segment >= MaxSegments
                 THEN Resolved("SegmentBound", s, s.board, cp, "relay", segment)
                 ELSE play_move_rec(rs, s.board, cp, next_rel, segment + 1)
        ELSE SwapPlayer(s, cp, segment)

----------------------------------------------------------------------------
(* gamestate.py: the animated move, which also records board copies *)

\* An entry of a board stack: a copy of the board (alias = FALSE) or a
\* reference to the live board object itself (alias = TRUE, whose counts
\* are those of the live board at any later time).
Snapshot(b) == [alias |-> FALSE, board |-> copy(b)]

LiveBoard == [alias |-> TRUE, board |-> NewBoard([seeds_per_hole |-> 0])]

\* The while loop of _animate_move (lines 262-275)
RECURSIVE SowAnimated(_, _, _, _, _, _)
SowAnimated(b, hole_index, seed_count, player, first_cycle, stack) ==
    IF seed_count > 0
    THEN LET h1 == hole_index + 1
             h2 == IF h1 = NUMBER_OF_TOTAL_HOLES THEN 0 ELSE h1
             fc == IF h2 = PLAYER_TO_STORE_INDEX(player) THEN FALSE ELSE first_cycle
         IN  IF h2 = PLAYER_TO_STORE_INDEX(1 - player)
             THEN SowAnimated(b, h2, seed_count, player, fc, stack)
             ELSE LET b1 == SetItem(b, h2, GetItem(b, h2) + 1)
                  IN  IF b1.raised
                      THEN [board |-> b1, hole_index |-> h2, first_cycle |-> fc,
                            stack |-> stack]
                      ELSE SowAnimated(b1, h2, seed_count - 1, player, fc,
                                       Append(stack, Snapshot(b1)))
    ELSE [board |-> b, hole_index |-> hole_index, first_cycle |-> first_cycle,
          stack |-> stack]

ResolvedAnimated(outcome, s, b, cp, branch, segment, stack) ==
    [outcome |-> outcome, board |-> b, current_player |-> cp,
     hole_index |-> s.hole_index, branch |-> branch, segments |-> segment,
     first_cycle |-> s.first_cycle, landed |-> s.board, stack |-> stack]

\* Gamestate._animate_move; prev_board_stack is the list built so far
RECURSIVE animate_move_rec(_, _, _, _, _, _)
animate_move_rec(rs, b, cp, relative_hole_index, segment, prev_board_stack) ==
    LET player == cp
        start == relative_index_to_absolute(cp, relative_hole_index)
        seed_count == GetItem(b, start)
        b0 == SetItem(b, start, 0)
        s == SowAnimated(b0, start, seed_count, player, TRUE,
                         Append(prev_board_stack, Snapshot(b0)))
        h == s.hole_index
        cap == do_capture(rs, s.board, cp, h, player)
        swap == ResolvedAnimated("ok", s, s.board, next_player(cp), "swap",
                                 segment, s.stack)
    IN  IF h = PLAYER_TO_STORE_INDEX(player)
        THEN IF rs.allow_multiple_laps
             THEN ResolvedAnimated("ok", s, s.board, cp, "again", segment, s.stack)
             ELSE swap
        ELSE IF GetItem(s.board, h) = 1
        THEN IF rs.allow_captures
                /\ (rs.capture_on_one_cycle => s.first_cycle)
                /\ cap.captured
             THEN ResolvedAnimated("ok", s, cap.board, cap.current_player,
                                   "capture", segment,
                                   Append(s.stack, Snapshot(cap.board)))
             ELSE swap
        ELSE IF rs.do_relay_sowing
        THEN LET next_rel == absolute_index_to_relative(h)
             IN  IF next_rel = relative_hole_index /\ s.board = b
                 THEN ResolvedAnimated("RecursionError", s, s.board, cp, "relay",
                                       segment, s.stack)
                 ELSE IF segment >= MaxSegments
                 THEN ResolvedAnimated("SegmentBound", s, s.board, cp, "relay",
                                       segment, s.stack)
                 ELSE animate_move_rec(rs, s.board, cp, next_rel, segment + 1,
                                       s.stack)
        ELSE swap

\* _animate_move with the relay re-entry of lines 292-294 left out
animate_move_no_relay(rs, b, cp, relative_hole_index) ==
    animate_move_rec([rs EXCEPT !.do_relay_sowing = FALSE], b, cp,
                     relative_hole_index, 1, <<Snapshot(b)>>)

\* _animate_move as play_move calls it: prev_board_stack is None, so the
\* list starts with a copy of the board before the move
animate_move(rs, b, cp, relative_hole_index) ==
    animate_move_rec(rs, b, cp, relative_hole_index, 1, <<Snapshot(b)>>)

\* _play_move as play_move calls it
play_move_plain(rs, b, cp, relative_hole_index) ==
    play_move_rec(rs, b, cp, relative_hole_index, 1)

----------------------------------------------------------------------------
(* gamestate.py: terminal check, scoring *)

\* any(len(hole) for hole in side)
AnySeeds(b, side) == \E y \in HoleRange : get_holes(b, side)[y] # 0

\* the condition of line 156
TerminalCondition(b) == ~(AnySeeds(b, 0) /\ AnySeeds(b, 1))

\* the sweep loop with `self._board[i] = seeds` in place of `+=` at a store
RECURSIVE Sweep_overwrite(_, _, _)
Sweep_overwrite(b, i, seeds) ==
    IF i >= NUMBER_OF_TOTAL_HOLES
    THEN b
    ELSE IF i \in StoreIndices
    THEN Sweep_overwrite(SetItem(b, i, seeds), i + 1, 0)
    ELSE Sweep_overwrite(SetItem(b, i, 0), i + 1, seeds + GetItem(b, i))

\* The sweep loop of _check_terminal (lines 158-165), from index i on
RECURSIVE Sweep(_, _, _)
Sweep(b, i, seeds) ==
    IF i >= NUMBER_OF_TOTAL_HOLES
    THEN b
    ELSE IF i \in StoreIndices
    THEN Sweep(SetItem(b, i, GetItem(b, i) + seeds), i + 1, 0)
    ELSE Sweep(SetItem(b, i, 0), i + 1, seeds + GetItem(b, i))

TIE == 2

\* lines 170-175
ResultOf(s1, s2) == IF s1 = s2 THEN TIE ELSE IF s1 < s2 THEN 1 ELSE 0

\* Gamestate.terminate on the fields of the Gamestate (g)
terminate(g) == [g EXCEPT !.game_over = TRUE, !.current_player = 0]

\* Gamestate._check_terminal on the fields of the Gamestate (g), up to the
\* rendering of the returned images.  Lines 167-168 call Board.get_store.
check_terminal(g) ==
    IF TerminalCondition(g.board)
    THEN LET swept == Sweep(g.board, 0, 0)
             t == [terminate(g) EXCEPT !.board = swept, !.swept = TRUE]
         IN  IF BoardHasGetStore
             THEN [t EXCEPT !.score_1 = Some(swept.store[0]),
                            !.score_2 = Some(swept.store[1]),
                            !.result = Some(ResultOf(swept.store[0], swept.store[1]))]
             ELSE [t EXCEPT !.outcome = "AttributeError"]
    ELSE g

\* Gamestate.score
score(side, s1, s2) == IF side # 0 THEN s1 ELSE s2

----------------------------------------------------------------------------
(* board.py, gamestate.py: __str__.  A string is the sequence of its
   characters. *)

Digits == <<"0", "1", "2", "3", "4", "5", "6", "7", "8", "9">>

\* str(n) for an int n >= 0
RECURSIVE Str(_)
Str(n) == IF n < 10 THEN <<Digits[n + 1]>> ELSE Str(n \div 10) \o <<Digits[(n % 10) + 1]>>

\* ' '.join(parts) from part i on
RECURSIVE JoinFrom(_, _)
JoinFrom(parts, i) ==
    IF i > Len(parts) THEN <<>>
    ELSE IF i = Len(parts) THEN parts[i]
    ELSE parts[i] \o <<" ">> \o JoinFrom(parts, i + 1)

\* Board.__str__ with the stores left out of the string
BoardStr_holes_only(b) ==
    JoinFrom([k \in 1..(NUMBER_OF_TOTAL_HOLES - 2) |->
                 Str(GetItem(b, IF k <= 6 THEN k - 1 ELSE k))], 1)

\* Board.__str__ listing the twelve holes first and the two stores last
BoardStr_stores_last(b) ==
    JoinFrom([k \in 1..NUMBER_OF_TOTAL_HOLES |->
                 Str(IF k <= 6 THEN b.holes[0][k - 1]
                     ELSE IF k <= 12 THEN b.holes[1][k - 7]
                     ELSE b.store[k - 13])], 1)

\* Board.__str__
BoardStr(b) ==
    JoinFrom([k \in 1..NUMBER_OF_TOTAL_HOLES |-> Str(GetItem(b, k - 1))], 1)

\* Gamestate.__str__
GamestateStr(b, cp) == BoardStr(b) \o <<" ">> \o Str(cp)

----------------------------------------------------------------------------
(* engine.py: the lines of the engine and their classification.  A line is
   the sequence of its characters, with its newline. *)

\* the lines the engine process is taken to write on its stdout
ReplyLines ==
    { <<"3", "\n">>, <<"6", "\n">>, <<"8", "\n">>, <<"1", "5", "\n">>,
      <<"-", "1", "\n">>, <<"-", "2", "\n">>, <<"x", "\n">> }

Whitespace == {" ", "\n", "\t", "\r"}

\* str.lstrip() and str.rstrip()
RECURSIVE LStrip(_)
LStrip(str) ==
    IF str # <<>> /\ Head(str) \in Whitespace THEN LStrip(Tail(str)) ELSE str

RECURSIVE RStrip(_)
RStrip(str) ==
    IF str # <<>> /\ str[Len(str)] \in Whitespace
    THEN RStrip(SubSeq(str, 1, Len(str) - 1))
    ELSE str

\* str.strip()
Strip(str) == RStrip(LStrip(str))

IsDigits(str) ==
    str # <<>> /\ \A k \in 1..Len(str) : \E d \in 1..10 : Digits[d] = str[k]

DigitValue(c) == (CHOOSE d \in 1..10 : Digits[d] = c) - 1

RECURSIVE DigitsValue(_, _)
DigitsValue(str, acc) ==
    IF str = <<>> THEN acc
    ELSE DigitsValue(Tail(str), 10 * acc + DigitValue(Head(str)))

\* int(str): an optional sign and decimal digits, surrounding whitespace
\* ignored; None stands for ValueError
IntOf(str) ==
    LET t == Strip(str) IN
    IF t # <<>> /\ Head(t) \in {"-", "+"}
    THEN IF IsDigits(Tail(t))
         THEN Some((IF Head(t) = "-" THEN -1 ELSE 1) * DigitsValue(Tail(t), 0))
         ELSE None
    ELSE IF IsDigits(t) THEN Some(DigitsValue(t, 0)) ELSE None

\* EngineInterface.ENGINE_DICT
ENGINE_DICT ==
    [e \in {"human", "random", "min_max", "alpha_beta", "simple_threaded_ab",
            "heuristic_ab", "beta_alpha"} |->
        CASE e = "human" -> 0
          [] e = "random" -> 1
          [] e = "min_max" -> 2
          [] e = "alpha_beta" -> 3
          [] e = "simple_threaded_ab" -> 4
          [] e = "heuristic_ab" -> 5
          [] e = "beta_alpha" -> 6]

\* the engine name after lines 121-125 of search
EngineUsed(engine, engine_depth) ==
    IF engine_depth < 0 THEN "beta_alpha"
    ELSE IF engine_depth = 0 THEN "random"
    ELSE engine

\* the depth without line 127 (engine_depth * 2)
DepthUsed_undoubled(engine_depth) ==
    IF engine_depth < 0 THEN -engine_depth ELSE engine_depth

\* the depth after lines 123-127 of search
DepthUsed(engine_depth) ==
    (IF engine_depth < 0 THEN -engine_depth ELSE engine_depth) * 2

\* params of line 134: f"search {engine_index} {engine_depth}\n"
SearchParams(engine_index, engine_depth) ==
    <<"s", "e", "a", "r", "c", "h", " ">> \o Str(engine_index) \o <<" ">>
    \o Str(engine_depth) \o <<"\n">>

\* lines 139-149 of search: what becomes of one reply line
Classify(line) ==
    LET out_msg == Strip(line)
        move == IntOf(out_msg)
    IN  IF move = None
        THEN [outcome |-> "EngineFailedParse", value |-> None]
        ELSE IF move = Some(-1)
        THEN [outcome |-> "EngineSearchFailed", value |-> None]
        ELSE [outcome |-> "returned", value |-> move]

\* no search call in flight.  Of a call, `stale` records that a line was
\* already on output_queue when it began (the engine wrote it before the
\* request).
NoSearch ==
    [pc |-> "idle", caller |-> "none", engine |-> "none", engine_depth |-> 0,
     timeout |-> None, arrived |-> FALSE, stale |-> FALSE]

\* what search_last records of a finished search: how it ended, the value
\* returned, the line read, whether a line was on the queue at any time of
\* the wait for the reply, the caller, and the relative move that
\* Match.engine_reply handed to send_reply
Ended(outcome, value, line, arrived, caller, move) ==
    [outcome |-> outcome, value |-> value, line |-> line,
     arrived |-> arrived, caller |-> caller, move |-> move]

\* EngineInterface.__init__: an empty queue, the reader thread started
EngineInit ==
    /\ output_queue = <<>>
    /\ stream_open = TRUE
    /\ search = NoSearch
    /\ sent = <<>>
    /\ written = <<>>
    /\ search_last = Ended("none", None, <<>>, FALSE, "none", None)
    /\ searches = 0

----------------------------------------------------------------------------
(* match.py: the MatchManager.  A user is a positive number and Python's
   None is NoUser; both can be keys of player_dict.  A Challenge or Match
   object is referred to by its position in `objects`; player_dict maps a
   key to such a position, or to Absent when the key is not in the
   dictionary.  Of a Match only its players and Match.terminal (the
   game_over of its Gamestate) are kept. *)

Users == 1..MaxUsers

NoUser == 0

Keys == Users \cup {NoUser}

Absent == 0

\* Challenge.__init__ and Match.__init__
Challenge(player_1, player_2) ==
    [kind |-> "challenge", player_1 |-> player_1, player_2 |-> player_2,
     terminal |-> FALSE]

Match(player_1, player_2) ==
    [kind |-> "match", player_1 |-> player_1, player_2 |-> player_2,
     terminal |-> FALSE]

\* key in self.player_dict
InDict(dict, key) == dict[key] # Absent

\* self.player_dict.pop(key, None)
Pop(dict, key) == [dict EXCEPT ![key] = Absent]

\* self.player_dict.update({player_1: obj, player_2: obj})
Update(dict, player_1, player_2, obj) ==
    [dict EXCEPT ![player_1] = obj, ![player_2] = obj]

\* The occupancy check add_challenge makes for one player: nothing for
\* None or a key not in the dictionary, the entry popped when it is
\* terminal, PlayerFound otherwise
CheckPlayer(objs, dict, player) ==
    IF player # NoUser /\ InDict(dict, player)
    THEN IF objs[dict[player]].terminal
         THEN [raised |-> FALSE, dict |-> Pop(dict, player)]
         ELSE [raised |-> TRUE, dict |-> dict]
    ELSE [raised |-> FALSE, dict |-> dict]

\* MatchManager.find_challenge: the outcome and the object found
find_challenge(dict, player_1, player_2) ==
    IF player_1 # NoUser /\ ~InDict(dict, player_1)
    THEN [outcome |-> "PlayerNotFound", obj |-> Absent]
    ELSE IF player_2 # NoUser /\ ~InDict(dict, player_2)
    THEN [outcome |-> "PlayerNotFound", obj |-> Absent]
    ELSE IF ~InDict(dict, IF player_1 # NoUser THEN player_1 ELSE player_2)
    THEN [outcome |-> "KeyError", obj |-> Absent]
    ELSE [outcome |-> "ok",
          obj |-> dict[IF player_1 # NoUser THEN player_1 ELSE player_2]]

ManagerCall(op, player_1, player_2, outcome) ==
    [op |-> op, player_1 |-> player_1, player_2 |-> player_2,
     outcome |-> outcome]

\* MatchManager.__init__
ManagerInit ==
    /\ player_dict = [key \in Keys |-> Absent]
    /\ matches = {}
    /\ objects = <<>>
    /\ manager_last = ManagerCall("init", NoUser, NoUser, "ok")

----------------------------------------------------------------------------
(* views.py, match.py: the move prompt (MoveView) of a Match.  Of the Match
   the view keeps the two players; its Gamestate is the Gamestate of this
   module.  A button interaction is a task of its own: discord.ui.View
   awaits interaction_check and, when that returns True, the callback of
   the button. *)

\* Match.current_player
match_current_player(player_1, player_2, cp) ==
    IF cp # 0 THEN player_2 ELSE player_1

\* Match.other_player
match_other_player(player_1, player_2, cp) ==
    IF cp # 0 THEN player_1 ELSE player_2

NoView ==
    [made |-> FALSE, player_1 |-> NoUser, player_2 |-> NoUser,
     player |-> NoUser, legal |-> [idx \in HoleRange |-> FALSE], played |-> 0]

\* MoveView.__init__ over a Match of player_1 and player_2 whose Gamestate
\* has board b and current player cp: the player to move and one button per
\* hole, with legal_move as callback where valid_mask is true.  `played`
\* counts the interactions on this view that have changed the Gamestate.
MoveView(player_1, player_2, b, cp) ==
    [made |-> TRUE, player_1 |-> player_1, player_2 |-> player_2,
     player |-> match_current_player(player_1, player_2, cp),
     legal |-> valid_mask(b, cp), played |-> 0]

\* an interaction_check that lets every user through
interaction_check_all(v, cp, user) == "allowed"

\* MoveView.interaction_check for an interaction of `user`, with the
\* Gamestate's current player cp: the message sent to a user who is
\* refused, or "allowed"
interaction_check(v, cp, user) ==
    IF user # v.player
    THEN IF user = match_other_player(v.player_1, v.player_2, cp)
         THEN "Wait your turn!"
         ELSE "You are not allowed to interact with this game."
    ELSE "allowed"

\* an interaction that has not happened yet
NoPress == [pc |-> "none", user |-> NoUser, idx |-> -1, outcome |-> "none",
            overlapped |-> FALSE]

\* no MoveView has been built
ViewInit ==
    /\ view = NoView
    /\ presses = [k \in 1..MaxPresses |-> NoPress]

----------------------------------------------------------------------------
(* The state machine: one Gamestate and the calls made on it.  The images
   play_move and _check_terminal render from the boards are not modelled. *)

\* the arguments tried for `move`: every hole, one below, one above
MoveInputs == -1..6

\* the most recent MaxStack entries of a board stack
Recent(stack) ==
    IF Len(stack) <= MaxStack
    THEN stack
    ELSE SubSeq(stack, Len(stack) - MaxStack + 1, Len(stack))

\* What `last` records of a call: the operation, its move argument, how it
\* ended, and for a move that was resolved: whether it was animated, the
\* landing branch, the final landing index, the number of sowing segments
\* and whether the terminal sweep ran.
Call(op, move, outcome, animate, branch, h, segments, swept) ==
    [op |-> op, move |-> move, outcome |-> outcome, animate |-> animate,
     branch |-> branch, hole_index |-> h, segments |-> segments,
     swept |-> swept]

\* Gamestate.__init__ over a rule_set drawn from `rulesets`
InitOver(rulesets) ==
    /\ rule_set \in rulesets
    /\ board = NewBoard(rule_set)
    /\ current_player = 0
    /\ game_over = FALSE
    /\ result = None
    /\ score_1 = None
    /\ score_2 = None
    /\ board_stack = <<>>
    /\ returned = None
    /\ last = Call("init", -1, "ok", FALSE, "none", -1, 0, FALSE)
    /\ calls = 0
    /\ EngineInit
    /\ ManagerInit
    /\ ViewInit

Init == InitOver(Rulesets)

\* play_move raising before anything is changed
Raise(move, error) ==
    /\ last' = Call("play_move", move, error, FALSE, "none", -1, 0, FALSE)
    /\ UNCHANGED <<rule_set, board, current_player, game_over, result,
                   score_1, score_2, board_stack, calls, returned>>

\* the move resolution of play_move (lines 141-146)
Resolve(move, animate) ==
    IF animate
    THEN animate_move(rule_set, board, current_player, move)
    ELSE play_move_plain(rule_set, board, current_player, move)
             @@ [stack |-> <<LiveBoard>>]

\* the test of line 136 without its lower bound
MoveOutOfRange_upper(move) == move >= 6

\* the test of line 136
MoveOutOfRange(move) == move >= 6 \/ move < 0

\* self.valid_mask[move]: a Python list index, counted from the end of the
\* list when it is negative
MaskAt(mask, move) == mask[IF move < 0 THEN move + 6 ELSE move]

\* Gamestate.play_move
PlayMove(move, animate) ==
    IF MoveOutOfRange(move)
    THEN Raise(move, "InvalidMove")
    ELSE IF ~MaskAt(valid_mask(board, current_player), move)
    THEN Raise(move, "IllegalMove")
    ELSE
        /\ calls' = calls + 1
        /\ UNCHANGED <<rule_set, returned>>
        /\ \E r \in {Resolve(move, animate)} :
           IF r.outcome # "ok"
           THEN \* the exception leaves _play_move/_animate_move: nothing is
                \* appended to _board_stack and _check_terminal is not run
                /\ board' = r.board
                /\ last' = Call("play_move", move, r.outcome, animate, r.branch,
                                r.hole_index, r.segments, FALSE)
                /\ UNCHANGED <<current_player, game_over, result, score_1,
                               score_2, board_stack>>
           ELSE \E t \in {check_terminal(
                            [board |-> r.board,
                             current_player |-> r.current_player,
                             game_over |-> game_over,
                             result |-> result,
                             score_1 |-> score_1,
                             score_2 |-> score_2,
                             outcome |-> "ok",
                             swept |-> FALSE])} :
                    /\ board' = t.board
                    /\ current_player' = t.current_player
                    /\ game_over' = t.game_over
                    /\ result' = t.result
                    /\ score_1' = t.score_1
                    /\ score_2' = t.score_2
                    /\ board_stack' = Recent(board_stack \o r.stack)
                    /\ last' = Call("play_move", move, t.outcome, animate, r.branch,
                                    r.hole_index, r.segments, t.swept)

\* Gamestate.terminate (Match.terminate)
Terminate ==
    /\ calls' = calls + 1
    /\ \E t \in {terminate([game_over |-> game_over,
                            current_player |-> current_player])} :
          /\ game_over' = t.game_over
          /\ current_player' = t.current_player
    /\ last' = Call("terminate", -1, "ok", FALSE, "none", -1, 0, FALSE)
    /\ UNCHANGED <<rule_set, board, result, score_1, score_2, board_stack,
                   returned>>

\* Any call, with any argument, on a Gamestate of any ruleset
Next ==
    /\ calls < MaxCalls
    /\ \/ \E move \in MoveInputs, animate \in BOOLEAN : PlayMove(move, animate)
       \/ Terminate
    /\ UNCHANGED <<engine_vars, manager_vars, view_vars>>

Spec == Init /\ [][Next]_vars

\* A game played out with legal moves only, under the default rules and
\* under the default rules with relay sowing
GameRulesets ==
    {rs \in Rulesets :
        /\ rs.seeds_per_hole \in 1..MaxSeedsPerHole
        /\ \A f \in {"allow_captures", "capture_both", "capture_on_one_cycle",
                      "allow_multiple_laps"} : rs[f] = DefaultRuleset[f]}

InitGame == Init /\ rule_set \in GameRulesets

NextGame ==
    /\ calls < MaxGameCalls
    /\ \E move \in HoleRange :
          /\ valid_mask(board, current_player)[move]
          /\ PlayMove(move, FALSE)
    /\ UNCHANGED <<engine_vars, manager_vars, view_vars>>

SpecGame == InitGame /\ [][NextGame]_vars


\* Games of legal moves, plain and animated, under every ruleset that puts
\* seeds on the board
InitRules == Init /\ rule_set.seeds_per_hole > 0

NextRules ==
    /\ calls < MaxRuleCalls
    /\ \E move \in HoleRange, animate \in BOOLEAN :
          /\ valid_mask(board, current_player)[move]
          /\ PlayMove(move, animate)
    /\ UNCHANGED <<engine_vars, manager_vars, view_vars>>

SpecRules == InitRules /\ [][NextRules]_vars


\* Games of legal moves, plain and animated, with enough seeds in every
\* hole for a sowing to reach the opponent's store (LapSeedsPerHole - 5) or
\* to come back to its source hole (LapSeedsPerHole), under every
\* combination of the rule flags
LapRulesets ==
    {[rs EXCEPT !.seeds_per_hole = n] :
        rs \in Rulesets, n \in {LapSeedsPerHole - 5, LapSeedsPerHole}}

InitLaps == InitOver(LapRulesets)

NextLaps ==
    /\ calls < MaxLapCalls
    /\ \E move \in HoleRange, animate \in BOOLEAN :
          /\ valid_mask(board, current_player)[move]
          /\ PlayMove(move, animate)
    /\ UNCHANGED <<engine_vars, manager_vars, view_vars>>

SpecLaps == InitLaps /\ [][NextLaps]_vars


\* Games of legal moves, plain and animated, under every ruleset with
\* allow_multiple_laps false that puts seeds on the board, long enough for
\* a player to empty the own row with a last seed into the own store
NoLapRulesets ==
    {rs \in Rulesets : ~rs.allow_multiple_laps /\ rs.seeds_per_hole > 0}

InitNoLaps == InitOver(NoLapRulesets)

NextNoLaps ==
    /\ calls < MaxNoLapCalls
    /\ \E move \in HoleRange, animate \in BOOLEAN :
          /\ valid_mask(board, current_player)[move]
          /\ PlayMove(move, animate)
    /\ UNCHANGED <<engine_vars, manager_vars, view_vars>>

SpecNoLaps == InitNoLaps /\ [][NextNoLaps]_vars


\* The index helpers of a Gamestate, called with any argument between the
\* legal moves of a game

\* the absolute indices tried: every index, one below, one above
AbsInputs == -1..NUMBER_OF_TOTAL_HOLES

\* what `last` records of a call that only returns a value
Query(op, argument) == Call(op, argument, "ok", FALSE, "none", -1, 0, FALSE)

\* Gamestate.is_valid_move
IsValidMove(absolute_hole_index) ==
    /\ last' = Query("is_valid_move", absolute_hole_index)
    /\ returned' = Some(is_valid_move(current_player, absolute_hole_index))
    /\ UNCHANGED <<rule_set, board, current_player, game_over, result,
                   score_1, score_2, board_stack, calls>>

\* Gamestate.relative_index_to_absolute
RelativeIndexToAbsolute(relative_hole_index) ==
    /\ last' = Query("relative_index_to_absolute", relative_hole_index)
    /\ returned' = Some(relative_index_to_absolute(current_player,
                                                   relative_hole_index))
    /\ UNCHANGED <<rule_set, board, current_player, game_over, result,
                   score_1, score_2, board_stack, calls>>

\* Gamestate.absolute_index_to_relative
AbsoluteIndexToRelative(absolute_hole_index) ==
    /\ last' = Query("absolute_index_to_relative", absolute_hole_index)
    /\ returned' = Some(absolute_index_to_relative(absolute_hole_index))
    /\ UNCHANGED <<rule_set, board, current_player, game_over, result,
                   score_1, score_2, board_stack, calls>>

NextIndex ==
    /\ \/ /\ calls < MaxIndexCalls
          /\ \E move \in HoleRange :
                /\ valid_mask(board, current_player)[move]
                /\ PlayMove(move, FALSE)
       \/ \E absolute_hole_index \in AbsInputs : IsValidMove(absolute_hole_index)
       \/ \E relative_hole_index \in MoveInputs :
             RelativeIndexToAbsolute(relative_hole_index)
       \/ \E absolute_hole_index \in AbsInputs :
             AbsoluteIndexToRelative(absolute_hole_index)
    /\ UNCHANGED <<engine_vars, manager_vars, view_vars>>

SpecIndex == InitGame /\ [][NextIndex]_vars


\* A Board as Board.__init__ builds it and the __getitem__ and __setitem__
\* calls made on it, with any index

\* board[hole_index]
BoardGet(hole_index) ==
    /\ \E r \in {getitem(board, hole_index)} :
          /\ last' = Call("__getitem__", hole_index, r.outcome, FALSE, "none",
                          -1, 0, FALSE)
          /\ returned' = r.value
    /\ UNCHANGED <<rule_set, board, current_player, game_over, result,
                   score_1, score_2, board_stack, calls>>

\* board[hole_index] = value
BoardSet(hole_index, value) ==
    /\ calls' = calls + 1
    /\ \E r \in {setitem(board, hole_index, value)} :
          /\ last' = Call("__setitem__", hole_index, r.outcome, FALSE, "none",
                          -1, 0, FALSE)
          /\ board' = r.board
    /\ returned' = None
    /\ UNCHANGED <<rule_set, current_player, game_over, result, score_1,
                   score_2, board_stack>>

NextBoard ==
    /\ \/ \E hole_index \in AbsInputs : BoardGet(hole_index)
       \/ /\ calls < MaxBoardCalls
          /\ \E hole_index \in AbsInputs, value \in 0..MaxSetValue :
                BoardSet(hole_index, value)
    /\ UNCHANGED <<engine_vars, manager_vars, view_vars>>

SpecBoard == InitGame /\ [][NextBoard]_vars


\* Any call on a Gamestate whose rule_set and Board are built from any
\* dictionary Ruleset returns
InitConstruct == InitOver({Ruleset(fields) : fields \in RulesetInputs})

SpecConstruct == InitConstruct /\ [][Next]_vars


\* Games of legal moves from the position Gamestate() creates
InitDefault == Init /\ rule_set = DefaultRuleset

NextDefault ==
    /\ calls < MaxDefaultCalls
    /\ \E move \in HoleRange :
          /\ valid_mask(board, current_player)[move]
          /\ PlayMove(move, FALSE)
    /\ UNCHANGED <<engine_vars, manager_vars, view_vars>>

SpecDefault == InitDefault /\ [][NextDefault]_vars

----------------------------------------------------------------------------
(* engine.py, match.py: one EngineInterface, the engine process behind it,
   and the Match that owns both it and a Gamestate *)

EngineNames == DOMAIN ENGINE_DICT \cup {"mcts"}

DepthInputs == (0 - MaxDepth)..MaxDepth

\* the timeout argument of search: None, or some number of seconds
TimeoutInputs == {None, Some(1)}

\* line 90 of parse_gamestate: "board " + str(game_state) + "\n"
BoardLine(b, cp) ==
    <<"b", "o", "a", "r", "d", " ">> \o GamestateStr(b, cp) \o <<"\n">>

\* read_line reporting an empty queue as a parse failure
read_line_conflated(queue) ==
    IF queue # <<>>
    THEN [outcome |-> "line", line |-> Head(queue), queue |-> Tail(queue)]
    ELSE [outcome |-> "EngineFailedParse", line |-> <<>>, queue |-> queue]

\* EngineInterface.read_line when its wait is over: the head of the queue,
\* or EngineTimedOut when the queue is empty (queue.Empty)
read_line(queue) ==
    IF queue # <<>>
    THEN [outcome |-> "line", line |-> Head(queue), queue |-> Tail(queue)]
    ELSE [outcome |-> "EngineTimedOut", line |-> <<>>, queue |-> queue]

\* output_queue.get(timeout=timeout) returns or raises: an item is there,
\* or the timeout (if any) has run out
WaitOver(queue, timeout) == queue # <<>> \/ timeout # None

\* line 181 with the coroutine awaited: play_move(move, animate=gif) runs on g
msg_content_play_awaited(g, move, gif) ==
    IF MoveOutOfRange(move) \/ ~MaskAt(valid_mask(g.board, g.current_player), move)
    THEN g
    ELSE LET r == IF gif
                  THEN animate_move(rule_set, g.board, g.current_player, move)
                  ELSE play_move_plain(rule_set, g.board, g.current_player, move)
         IN  IF r.outcome # "ok"
             THEN [g EXCEPT !.board = r.board]
             ELSE LET t == check_terminal(
                              [board |-> r.board,
                               current_player |-> r.current_player,
                               game_over |-> g.game_over,
                               result |-> g.result,
                               score_1 |-> g.score_1,
                               score_2 |-> g.score_2,
                               outcome |-> "ok",
                               swept |-> FALSE])
                  IN  [board |-> t.board, current_player |-> t.current_player,
                       game_over |-> t.game_over, result |-> t.result,
                       score_1 |-> t.score_1, score_2 |-> t.score_2]

\* Match.msg_content line 181: self.gamestate.play_move(move, animate=gif)
\* builds a coroutine that is never awaited, so no statement of play_move
\* runs; g is the Gamestate after that line
msg_content_play(g, move, gif) == g

\* lines 121-138 of search: the engine and depth convention, the search
\* line, and the start of the wait for the reply
SendSearch ==
    \E engine \in {EngineUsed(search.engine, search.engine_depth)} :
       IF engine \notin DOMAIN ENGINE_DICT
       THEN /\ search' = NoSearch
            /\ search_last' = Ended("EngineSearchNotFound", None, <<>>, FALSE,
                                    search.caller, None)
            /\ UNCHANGED <<sent, written>>
       ELSE /\ sent' = SearchParams(ENGINE_DICT[engine],
                                    DepthUsed(search.engine_depth))
            /\ written' = Append(written, sent')
            /\ search' = [search EXCEPT !.pc = "reply",
                                        !.arrived = output_queue # <<>>]
            /\ UNCHANGED search_last

\* EngineInterface.search is called: with a game_state it first pushes the
\* board (parse_gamestate) and waits 0.5 s for a complaint
SearchCall(caller, with_state, engine, engine_depth, timeout) ==
    /\ search.pc = "idle"
    /\ searches < MaxSearches
    /\ searches' = searches + 1
    /\ IF with_state
       THEN /\ sent' = BoardLine(board, current_player)
            /\ written' = <<sent'>>
            /\ search' = [pc |-> "ack", caller |-> caller, engine |-> engine,
                          engine_depth |-> engine_depth, timeout |-> timeout,
                          arrived |-> FALSE,
                          stale |-> output_queue # <<>>]
            /\ UNCHANGED search_last
       ELSE \E sr \in {[pc |-> "send", caller |-> caller, engine |-> engine,
                        engine_depth |-> engine_depth, timeout |-> timeout,
                        arrived |-> FALSE,
                        stale |-> output_queue # <<>>]} :
              \E engine_used \in {EngineUsed(engine, engine_depth)} :
                 IF engine_used \notin DOMAIN ENGINE_DICT
                 THEN /\ search' = NoSearch
                      /\ search_last' = Ended("EngineSearchNotFound", None, <<>>,
                                              FALSE, caller, None)
                      /\ written' = <<>>
                      /\ UNCHANGED sent
                 ELSE /\ sent' = SearchParams(ENGINE_DICT[engine_used],
                                              DepthUsed(engine_depth))
                      /\ written' = <<sent'>>
                      /\ search' = [sr EXCEPT !.pc = "reply",
                                              !.arrived = output_queue # <<>>]
                      /\ UNCHANGED search_last
    /\ UNCHANGED <<output_queue, stream_open>>
    /\ UNCHANGED <<game_vars, manager_vars, view_vars>>

\* A caller of EngineInterface.search other than the Match
Search(with_state, engine, engine_depth, timeout) ==
    SearchCall("search", with_state, engine, engine_depth, timeout)

\* Match.engine_reply (lines 260-263): search(game_state=self.gamestate,
\* engine_depth=self.difficulty), with the default engine and no timeout
EngineReply(difficulty) ==
    /\ ~game_over
    /\ SearchCall("engine_reply", TRUE, "alpha_beta", difficulty, None)

\* parse_gamestate without line 95 (raise EngineFailedParse): a line read
\* in the 0.5 s wait is dropped and the search goes on
AckWaitEnds_unchecked ==
    /\ search.pc = "ack"
    /\ \E r \in {read_line(output_queue)} :
          /\ output_queue' = r.queue
          /\ SendSearch
    /\ UNCHANGED <<stream_open, searches>>
    /\ UNCHANGED <<game_vars, manager_vars, view_vars>>

\* parse_gamestate lines 93-97: the 0.5 s wait is over
AckWaitEnds ==
    /\ search.pc = "ack"
    /\ \E r \in {read_line(output_queue)} :
          /\ output_queue' = r.queue
          /\ IF r.outcome = "line"
             THEN /\ search' = NoSearch
                  /\ search_last' = Ended("EngineFailedParse", None, r.line,
                                          FALSE, search.caller, None)
                  /\ UNCHANGED <<sent, written>>
             ELSE SendSearch
    /\ UNCHANGED <<stream_open, searches>>
    /\ UNCHANGED <<game_vars, manager_vars, view_vars>>

\* search lines 138-149: the wait for the reply is over; for
\* Match.engine_reply, lines 264-265 follow a returned move
ReplyWaitEnds ==
    /\ search.pc = "reply"
    /\ WaitOver(output_queue, search.timeout)
    /\ search' = NoSearch
    /\ \E r \in {read_line(output_queue)} :
          /\ output_queue' = r.queue
          /\ IF r.outcome # "line"
             THEN /\ search_last' = Ended(r.outcome, None, <<>>, search.arrived,
                                          search.caller, None)
                  /\ UNCHANGED gs_vars
             ELSE \E c \in {Classify(r.line)} :
                    IF search.caller = "engine_reply" /\ c.outcome = "returned"
                    THEN \E engine_move \in
                              {absolute_index_to_relative(
                                  CHOOSE v \in c.value : TRUE)} :
                         \E g \in {msg_content_play(
                                     [board |-> board,
                                      current_player |-> current_player,
                                      game_over |-> game_over,
                                      result |-> result,
                                      score_1 |-> score_1,
                                      score_2 |-> score_2],
                                     engine_move, TRUE)} :
                            /\ board' = g.board
                            /\ current_player' = g.current_player
                            /\ game_over' = g.game_over
                            /\ result' = g.result
                            /\ score_1' = g.score_1
                            /\ score_2' = g.score_2
                            /\ search_last' = Ended(c.outcome, c.value, r.line,
                                                    TRUE, search.caller,
                                                    Some(engine_move))
                    ELSE /\ search_last' = Ended(c.outcome, c.value, r.line,
                                                 TRUE, search.caller, None)
                         /\ UNCHANGED gs_vars
    /\ UNCHANGED <<stream_open, sent, written, searches>>
    /\ UNCHANGED <<rule_set, board_stack, last, calls, returned, manager_vars,
                   view_vars>>

\* EngineInterface.enqueue_output: the reader thread puts a line the engine
\* wrote on the queue
EnqueueOutput(line) ==
    /\ stream_open
    /\ Len(output_queue) < MaxQueue
    /\ output_queue' = Append(output_queue, line)
    /\ search' = IF search.pc = "reply"
                 THEN [search EXCEPT !.arrived = TRUE]
                 ELSE search
    /\ UNCHANGED <<stream_open, sent, written, search_last, searches>>
    /\ UNCHANGED <<game_vars, manager_vars, view_vars>>

\* the engine's stdout reaches end of file: readline returns '', the loop
\* of enqueue_output ends and the reader thread exits
StreamClose ==
    /\ stream_open
    /\ stream_open' = FALSE
    /\ UNCHANGED <<output_queue, sent, written, search, search_last, searches>>
    /\ UNCHANGED <<game_vars, manager_vars, view_vars>>

\* A Match over a fresh Gamestate() and its EngineInterface
InitEngine == Init /\ rule_set = DefaultRuleset

NextEngine ==
    \/ \E with_state \in BOOLEAN, engine \in EngineNames,
          engine_depth \in DepthInputs, timeout \in TimeoutInputs :
          Search(with_state, engine, engine_depth, timeout)
    \/ \E difficulty \in DepthInputs : EngineReply(difficulty)
    \/ AckWaitEnds
    \/ ReplyWaitEnds
    \/ \E line \in ReplyLines : EnqueueOutput(line)
    \/ StreamClose

SpecEngine == InitEngine /\ [][NextEngine]_vars

\* The same, with every wait that can end ending: a queue.get with an item
\* to take returns, and a timeout that was given runs out
SpecEngineLive ==
    SpecEngine /\ WF_vars(AckWaitEnds) /\ WF_vars(ReplyWaitEnds)

----------------------------------------------------------------------------
(* match.py: the calls on one MatchManager *)

\* MatchManager.add_challenge
AddChallenge(player_1, player_2) ==
    /\ Len(objects) < MaxObjects
    /\ \E c1 \in {CheckPlayer(objects, player_dict, player_1)} :
          IF c1.raised
          THEN /\ manager_last' = ManagerCall("add_challenge", player_1,
                                              player_2, "PlayerFound")
               /\ UNCHANGED <<player_dict, matches, objects>>
          ELSE \E c2 \in {CheckPlayer(objects, c1.dict, player_2)} :
                  IF c2.raised
                  THEN /\ player_dict' = c1.dict
                       /\ manager_last' = ManagerCall("add_challenge", player_1,
                                                      player_2, "PlayerFound")
                       /\ UNCHANGED <<matches, objects>>
                  ELSE /\ objects' = Append(objects, Challenge(player_1, player_2))
                       /\ player_dict' = Update(c2.dict, player_1, player_2,
                                                Len(objects) + 1)
                       /\ manager_last' = ManagerCall("add_challenge", player_1,
                                                      player_2, "ok")
                       /\ UNCHANGED matches
    /\ UNCHANGED <<game_vars, engine_vars, view_vars>>

\* MatchManager.add_match: the challenge found is turned into a Match of the
\* challenge's players, and the keys given as arguments are mapped to it
AddMatch(player_1, player_2) ==
    /\ Len(objects) < MaxObjects
    /\ \E found \in {find_challenge(player_dict, player_1, player_2)} :
          IF found.outcome # "ok"
          THEN /\ manager_last' = ManagerCall("add_match", player_1, player_2,
                                              found.outcome)
               /\ UNCHANGED <<player_dict, matches, objects>>
          ELSE IF objects[found.obj].kind # "challenge"
          THEN /\ manager_last' = ManagerCall("add_match", player_1, player_2,
                                              "AttributeError")
               /\ UNCHANGED <<player_dict, matches, objects>>
          ELSE /\ objects' = Append(objects, Match(objects[found.obj].player_1,
                                                   objects[found.obj].player_2))
               /\ matches' = matches \cup {Len(objects) + 1}
               /\ player_dict' = Update(player_dict, player_1, player_2,
                                        Len(objects) + 1)
               /\ manager_last' = ManagerCall("add_match", player_1, player_2,
                                              "ok")
    /\ UNCHANGED <<game_vars, engine_vars, view_vars>>

\* MatchManager.delete_challenge
DeleteChallenge(player_1, player_2) ==
    /\ player_dict' =
          [key \in Keys |->
              IF key # NoUser /\ key \in {player_1, player_2}
              THEN Absent ELSE player_dict[key]]
    /\ manager_last' = ManagerCall("delete_challenge", player_1, player_2, "ok")
    /\ UNCHANGED <<matches, objects>>
    /\ UNCHANGED <<game_vars, engine_vars, view_vars>>

\* Match.terminate on a match that is not over, or the game of the match
\* reaching its end: Match.terminal becomes true
MatchEnds(m) ==
    /\ m \in matches
    /\ ~objects[m].terminal
    /\ objects' = [objects EXCEPT ![m].terminal = TRUE]
    /\ manager_last' = ManagerCall("terminate", objects[m].player_1,
                                   objects[m].player_2, "ok")
    /\ UNCHANGED <<player_dict, matches>>
    /\ UNCHANGED <<game_vars, engine_vars, view_vars>>

InitManager == Init /\ rule_set = DefaultRuleset

NextManager ==
    \/ \E player_1 \in Keys, player_2 \in Keys : AddChallenge(player_1, player_2)
    \/ \E player_1 \in Keys, player_2 \in Keys : AddMatch(player_1, player_2)
    \/ \E player_1 \in Keys, player_2 \in Keys : DeleteChallenge(player_1, player_2)
    \/ \E m \in 1..MaxObjects : MatchEnds(m)

SpecManager == InitManager /\ [][NextManager]_vars

----------------------------------------------------------------------------
(* views.py, match.py: one move prompt and the button interactions on it *)

\* The position the prompt is built for is reached by legal moves played on
\* the Gamestate of the match
ViewPlay(move) ==
    /\ ~view.made
    /\ calls < MaxViewCalls
    /\ valid_mask(board, current_player)[move]
    /\ PlayMove(move, FALSE)
    /\ UNCHANGED view_vars

\* Match.msg_content line 222: MoveView(self) if self.current_player, for
\* a match that is not over (line 224)
NewMoveView(player_1, player_2) ==
    /\ ~view.made
    /\ ~game_over
    /\ match_current_player(player_1, player_2, current_player) # NoUser
    /\ view' = MoveView(player_1, player_2, board, current_player)
    /\ UNCHANGED <<presses, game_vars>>

\* A user presses the button of hole idx: interaction_check, and for a user
\* it lets through the callback of the button up to its first await.
\* legal_move is then suspended in `await interaction.message.edit(view=None)`
\* (line 144); illegal_move only sends a message.
Press(k, user, idx) ==
    /\ view.made
    /\ presses[k].pc = "none"
    /\ \A j \in 1..(k - 1) : presses[j].pc # "none"
    /\ \E check \in {interaction_check(view, current_player, user)} :
          presses' = [presses EXCEPT ![k] =
             IF check # "allowed"
             THEN [pc |-> "done", user |-> user, idx |-> idx,
                   outcome |-> check, overlapped |-> FALSE]
             ELSE IF ~view.legal[idx]
             THEN [pc |-> "done", user |-> user, idx |-> idx,
                   outcome |-> "The hole you selected is empty!",
                   overlapped |-> FALSE]
             ELSE [pc |-> "edit", user |-> user, idx |-> idx,
                   outcome |-> "none",
                   overlapped |-> \E j \in 1..MaxPresses : presses[j].pc = "edit"]]
    /\ UNCHANGED <<view, game_vars>>

\* The edit of line 144 has returned: legal_move goes on with
\* self.match.send_reply(move=idx, gif=True) (line 145).  Match.send_reply
\* evaluates self.msg_content(move=idx, gif=True) first: line 181, and then
\* img[0] (line 208) on the coroutine object raises TypeError, which leaves
\* msg_content, send_reply and legal_move; self.stop() (line 146) is not
\* reached.
EditReturns(k) ==
    /\ presses[k].pc = "edit"
    /\ \E gs \in {[board |-> board, current_player |-> current_player,
                    game_over |-> game_over, result |-> result,
                    score_1 |-> score_1, score_2 |-> score_2]} :
       \E g \in {msg_content_play(gs, presses[k].idx, TRUE)} :
          /\ board' = g.board
          /\ current_player' = g.current_player
          /\ game_over' = g.game_over
          /\ result' = g.result
          /\ score_1' = g.score_1
          /\ score_2' = g.score_2
          /\ view' = [view EXCEPT !.played = IF g # gs THEN @ + 1 ELSE @]
    /\ presses' = [presses EXCEPT ![k].pc = "done", ![k].outcome = "TypeError"]
    /\ UNCHANGED <<rule_set, board_stack, last, calls, returned>>

NextView ==
    /\ \/ \E move \in HoleRange : ViewPlay(move)
       \/ \E player_1 \in Keys, player_2 \in Keys : NewMoveView(player_1, player_2)
       \/ \E k \in 1..MaxPresses, user \in Users, idx \in HoleRange :
             Press(k, user, idx)
       \/ \E k \in 1..MaxPresses : EditReturns(k)
    /\ UNCHANGED <<engine_vars, manager_vars>>

SpecView == InitGame /\ [][NextView]_vars

----------------------------------------------------------------------------
(* Vocabulary of the properties *)

\* the count at an absolute index by the board layout: side-0 holes,
\* side-0 store, side-1 holes, side-1 store
CountAt(b, i) ==
    IF i < 6 THEN b.holes[0][i]
    ELSE IF i = 6 THEN b.store[0]
    ELSE IF i < 13 THEN b.holes[1][i - 7]
    ELSE b.store[1]

SumHoles(b, side) ==
    b.holes[side][0] + b.holes[side][1] + b.holes[side][2]
    + b.holes[side][3] + b.holes[side][4] + b.holes[side][5]

\* seeds in the holes and the stores (the buffer not counted)
Counted(b) == SumHoles(b, 0) + SumHoles(b, 1) + b.store[0] + b.store[1]

ExpectedSeeds == 2 * NUMBER_OF_HOLES_PER_SIDE * rule_set.seeds_per_hole

AllHolesZero(b) == SumHoles(b, 0) = 0 /\ SumHoles(b, 1) = 0

\* the mirror of a hole: 2*store_index[0] - h
Mirror(h) == 2 * PLAYER_TO_STORE_INDEX(0) - h

OwnHoles(player) == IF player = 0 THEN 0..5 ELSE 7..12

\* this step is a play_move(m) call
Called(m) == last'.op = "play_move" /\ last'.move = m

\* this step is a play_move call that passed validation and resolved the
\* move (it may still have failed later, inside _check_terminal)
MoveResolved == last'.op = "play_move" /\ last'.outcome \in {"ok", "AttributeError"}

\* the resolution of the move of this step, recomputed from the state
\* before it
ResolutionOfStep ==
    IF last'.animate
    THEN animate_move(rule_set, board, current_player, last'.move)
    ELSE play_move_plain(rule_set, board, current_player, last'.move)

GamestateUnchanged ==
    /\ board' = board
    /\ current_player' = current_player
    /\ game_over' = game_over
    /\ result' = result
    /\ score_1' = score_1
    /\ score_2' = score_2
    /\ GamestateStr(board', current_player') = GamestateStr(board, current_player)

\* What the model relies on and every specification keeps: no set pops an empty
\* buffer, no move is cut short by MaxSegments, no seed stays in hand.
ModelSound ==
    /\ ~board.raised
    /\ board.buffer = 0
    /\ last.outcome # "SegmentBound"

----------------------------------------------------------------------------
(* C1 *)

\* C1: seed conservation.  In every state reached by legal moves, under
\* every ruleset and after every landing branch (swap, own store, capture,
\* relay chain, terminal sweep), the holes and stores together hold
\* 2*holes_per_side*seeds_per_hole seeds.
C1_SeedConservation == Counted(board) = ExpectedSeeds

\* a state after a move that ran the terminal sweep (at the end of a relay
\* chain)
C1_Witness ==
    /\ last.op = "play_move"
    /\ last.swept
    /\ last.segments > 1
    /\ Counted(board) = ExpectedSeeds

----------------------------------------------------------------------------
(* C2 *)

\* C2: empty-hole rejection.  play_move(m), 0 <= m < 6, on a hole of the
\* current player that holds no seed ends with IllegalMove and leaves the
\* board, its wire string, current_player, game_over, result and scores as
\* they were.
C2_EmptyHoleRejected ==
    [][\A m \in HoleRange :
          (Called(m) /\ board.holes[current_player][m] = 0)
          => (last'.outcome = "IllegalMove" /\ GamestateUnchanged)]_vars

\* a game in progress in which play_move was just refused on an empty hole
C2_Witness ==
    /\ last.op = "play_move"
    /\ last.outcome = "IllegalMove"
    /\ last.move \in HoleRange
    /\ board.holes[current_player][last.move] = 0
    /\ calls > 0
    /\ ~game_over

----------------------------------------------------------------------------
(* C3 *)

\* C3: out-of-range rejection.  play_move(m) with m < 0 or m >= 6 ends with
\* InvalidMove, whatever the holes hold (the range is tested before the
\* empty-hole test), and leaves the Gamestate as it was.
C3_OutOfRangeRejected ==
    [][\A m \in MoveInputs \ HoleRange :
          Called(m) => (last'.outcome = "InvalidMove" /\ GamestateUnchanged)]_vars

\* play_move(-1) was refused as out of range in a state where the hole that
\* Python's valid_mask[-1] denotes is empty
C3_Witness ==
    /\ last.op = "play_move"
    /\ last.move = -1
    /\ last.outcome = "InvalidMove"
    /\ board.holes[current_player][5] = 0
    /\ calls > 0

----------------------------------------------------------------------------
(* C4 *)

\* C4: terminal is absorbing.  Once game_over is true, every play_move call
\* fails and leaves the Gamestate as it was.
C4_TerminalAbsorbing ==
    [][(game_over /\ last'.op = "play_move")
       => (last'.outcome # "ok" /\ GamestateUnchanged)]_vars

\* the violating call: terminate(), then play_move on a non-empty hole sows
C4_Reached ==
    /\ game_over
    /\ last.op = "play_move"
    /\ last.outcome = "ok"
    /\ board # NewBoard(rule_set)

----------------------------------------------------------------------------
(* C5 *)

\* C5 as stated: under allow_multiple_laps, a play_move whose last seed
\* lands in the mover's own store leaves current_player as it was before
\* the call, for either mover and every reachable position.
C5_OwnStoreKeepsPlayer ==
    [][(rule_set.allow_multiple_laps /\ MoveResolved
        /\ last'.hole_index = PLAYER_TO_STORE_INDEX(current_player))
       => current_player' = current_player]_vars

\* C5, amended: under allow_multiple_laps, a play_move whose last seed lands
\* in the mover's own store leaves current_player as it was before the call
\* unless the move ends the game; a move that ends the game (the terminal
\* sweep ran) leaves current_player = 0, whoever moved.
C5_OwnStoreKeepsPlayerUnlessOver ==
    [][(rule_set.allow_multiple_laps /\ MoveResolved
        /\ last'.hole_index = PLAYER_TO_STORE_INDEX(current_player))
       => current_player' = IF last'.swept THEN 0 ELSE current_player]_vars

\* player 1 has just landed the last seed in store 13 and moves again
C5_Witness ==
    /\ rule_set.allow_multiple_laps
    /\ last.op = "play_move"
    /\ last.branch = "again"
    /\ last.hole_index = PLAYER_TO_STORE_INDEX(1)
    /\ ~last.swept
    /\ ~game_over
    /\ current_player = 1

----------------------------------------------------------------------------
(* C6 *)

CaptureRules == rule_set.allow_captures /\ rule_set.capture_both

----------------------------------------------------------------------------
(* C7 *)

\* C7: terminal sweep.  Whenever a play_move leaves a side's row of holes
\* empty, after the call game_over is true, every hole is 0, each side's
\* remaining seeds were added to that side's store, result is 0, 1 or TIE,
\* and the stores sum to 2*holes_per_side*seeds_per_hole.
C7_TerminalSweep ==
    [][MoveResolved
       => \E r \in {ResolutionOfStep} :
            TerminalCondition(r.board)
            => /\ game_over'
               /\ AllHolesZero(board')
               /\ \A side \in Sides :
                     board'.store[side] = r.board.store[side] + SumHoles(r.board, side)
               /\ result' \in {Some(0), Some(1), Some(TIE)}
               /\ board'.store[0] + board'.store[1] = ExpectedSeeds]_vars

\* the sweep ran and the game is over, with no result
C7_Reached ==
    /\ last.op = "play_move"
    /\ last.swept
    /\ game_over
    /\ AllHolesZero(board)
    /\ result = None

----------------------------------------------------------------------------
(* C8 *)

\* a terminal state reached through the sweep: over, and no seed in a hole
SweptTerminal == game_over /\ AllHolesZero(board) /\ ExpectedSeeds > 0

\* C8: score accessor.  In every terminal state reached through the sweep,
\* score(0) is the count of store 0 and score(1) the count of store 1.
C8_ScoreIsStore ==
    SweptTerminal
    => /\ score(0, score_1, score_2) = Some(board.store[0])
       /\ score(1, score_1, score_2) = Some(board.store[1])

----------------------------------------------------------------------------
(* C9 *)

\* C9: result rule.  In every terminal state reached through the sweep,
\* result = 0 iff store 0 holds more than store 1, result = 1 iff store 1
\* holds more than store 0, and result = TIE iff they hold the same.
C9_ResultRule ==
    SweptTerminal
    => /\ (result = Some(0) <=> board.store[0] > board.store[1])
       /\ (result = Some(1) <=> board.store[1] > board.store[0])
       /\ (result = Some(TIE) <=> board.store[0] = board.store[1])

----------------------------------------------------------------------------
(* C10 *)

WireOfDefault ==
    <<"4", " ", "4", " ", "4", " ", "4", " ", "4", " ", "4", " ", "0", " ",
      "4", " ", "4", " ", "4", " ", "4", " ", "4", " ", "4", " ", "0", " ",
      "0">>

\* C10: initial position.  A freshly created Gamestate with the default
\* ruleset has every hole at 4, both stores at 0, current_player = 0,
\* game_over false, result None, and the wire string
\* "4 4 4 4 4 4 0 4 4 4 4 4 4 0 0".
C10_InitialPosition ==
    (last.op = "init" /\ rule_set = DefaultRuleset)
    => /\ \A i \in (0..13) \ StoreIndices : CountAt(board, i) = 4
       /\ \A i \in StoreIndices : CountAt(board, i) = 0
       /\ current_player = 0
       /\ game_over = FALSE
       /\ result = None
       /\ GamestateStr(board, current_player) = WireOfDefault

\* the Gamestate as constructed, before any call
C10_Witness ==
    /\ last.op = "init"
    /\ calls = 0
    /\ rule_set = DefaultRuleset
    /\ board_stack = <<>>

----------------------------------------------------------------------------
(* C11 *)

\* C11: stores are monotone.  Across any sequence of play_move calls
\* (sowing, capture, relay chains, terminal sweep) neither store's count
\* ever decreases.
C11_StoresMonotone ==
    [][\A side \in Sides : board'.store[side] >= board.store[side]]_vars

\* both stores have grown, the last time by a move that ran the terminal
\* sweep
C11_Witness ==
    /\ last.op = "play_move"
    /\ last.swept
    /\ board.store[0] > 0
    /\ board.store[1] > 0

----------------------------------------------------------------------------
(* C12 *)

\* the counts read from an entry of _board_stack: those of the copy, or
\* those of the live board when the entry is the live board object
EntryCounts(entry, live) == IF entry.alias THEN live ELSE entry.board

\* the number of boards the play_move of this step appended to _board_stack
Appended ==
    IF MoveResolved THEN Len(Resolve(last'.move, last'.animate).stack) ELSE 0

\* the number of entries this step dropped from the front of the recorded
\* history
Dropped == Len(board_stack) + Appended - Len(board_stack')

\* C12: snapshot independence.  Every board that play_move has recorded in
\* _board_stack, animated or not, keeps its counts through every later
\* play_move.
C12_SnapshotIndependence ==
    [][last'.op = "play_move"
       => \A i \in 1..Len(board_stack) :
             i > Dropped
             => EntryCounts(board_stack'[i - Dropped], board')
                = EntryCounts(board_stack[i], board)]_vars

\* a recorded entry is the live board itself and a later move has changed it
C12_Reached ==
    /\ Len(board_stack) = 2
    /\ board_stack[1].alias
    /\ last.op = "play_move"
    /\ last.outcome = "ok"

----------------------------------------------------------------------------
(* Vocabulary of the engine properties *)

\* the integer each line of ReplyLines spells, if it spells one
LineValue(line) ==
    CASE line = <<"3", "\n">> -> Some(3)
      [] line = <<"6", "\n">> -> Some(6)
      [] line = <<"8", "\n">> -> Some(8)
      [] line = <<"1", "5", "\n">> -> Some(15)
      [] line = <<"-", "1", "\n">> -> Some(-1)
      [] line = <<"-", "2", "\n">> -> Some(-2)
      [] OTHER -> None

\* this step ends a search call
SearchEnds ==
    search'.pc = "idle" /\ (search.pc # "idle" \/ searches' # searches)

\* this step ends the wait for the reply of a search
ReplyWaitOver == search.pc = "reply" /\ search'.pc = "idle"

\* the fields of a line: the pieces between single spaces, the newline
\* dropped
RECURSIVE Fields(_, _)
Fields(str, field) ==
    IF str = <<>> THEN <<field>>
    ELSE IF Head(str) = " " THEN <<field>> \o Fields(Tail(str), <<>>)
    ELSE IF Head(str) = "\n" THEN Fields(Tail(str), field)
    ELSE Fields(Tail(str), Append(field, Head(str)))

----------------------------------------------------------------------------
(* C13 *)

\* the reply that ends this step was parsed as an integer that is the
\* absolute index of a hole of the current player
GoodReply ==
    /\ ReplyWaitOver
    /\ search_last'.outcome = "returned"
    /\ \E v \in search_last'.value : v \in OwnHoles(current_player)

\* C13: no mutation on a bad engine reply.  During Match.engine_reply the
\* Gamestate changes only in a step whose reply was parsed as an integer
\* that is the absolute index of one of the current player's holes; a
\* timeout, an unparsable line, -1, a store index, an index of the
\* opponent's row or an index >= 14 leaves it unchanged.
C13_NoMutationOnBadReply ==
    [][(search.caller = "engine_reply" /\ ~GoodReply) => UNCHANGED gs_vars]_vars

\* engine_reply got the reply 8, a hole of the opponent, handed relative
\* move 1 to send_reply, and the Gamestate is as constructed
C13_Witness ==
    /\ search_last.caller = "engine_reply"
    /\ search_last.outcome = "returned"
    /\ search_last.value = Some(8)
    /\ search_last.move = Some(1)
    /\ current_player = 0
    /\ board = NewBoard(rule_set)

----------------------------------------------------------------------------
(* C14 *)

\* C14: no hang on stream closure.  When the engine's stdout is closed and
\* no line is left on the queue, a search waiting for its reply (with or
\* without a timeout) eventually ends with EngineTimedOut.
C14_NoHang ==
    (search.pc = "reply" /\ ~stream_open /\ output_queue = <<>>)
    ~> (search.pc = "idle" /\ search_last.outcome = "EngineTimedOut")

\* engine_reply waits for a reply, no timeout, on a closed stream
C14_Reached ==
    /\ search.pc = "reply"
    /\ search.caller = "engine_reply"
    /\ search.timeout = None
    /\ ~stream_open
    /\ output_queue = <<>>

----------------------------------------------------------------------------
(* C15 *)

\* C15: timeout is a distinct outcome.  A search whose wait for the reply
\* ends without a line having been on the queue ends with EngineTimedOut
\* (not with EngineFailedParse or EngineSearchFailed), and a search ends
\* with EngineTimedOut only from a wait for the reply during which the
\* queue stayed empty.
C15_TimeoutDistinct ==
    [][/\ (ReplyWaitOver /\ ~search.arrived)
          => search_last'.outcome = "EngineTimedOut"
       /\ (SearchEnds /\ search_last'.outcome = "EngineTimedOut")
          => (search.pc = "reply" /\ ~search.arrived /\ output_queue = <<>>
              /\ search.timeout # None)]_vars

\* a search with a timeout has ended with EngineTimedOut, no line seen
C15_Witness ==
    /\ search.pc = "idle"
    /\ search_last.outcome = "EngineTimedOut"
    /\ ~search_last.arrived
    /\ output_queue = <<>>

----------------------------------------------------------------------------
(* C16 *)

\* C16: search reply classification.  For the reply line read, search
\* returns the integer iff the line is a nonnegative integer, ends with
\* EngineSearchFailed iff the line is -1, ends with EngineFailedParse iff
\* the line is not an integer, and never returns a negative index.
C16_ReplyClassification ==
    [][(ReplyWaitOver /\ search_last'.line # <<>>)
       => \E n \in {LineValue(search_last'.line)} :
            /\ search_last'.outcome = "returned"
                  <=> \E v \in n : v >= 0
            /\ search_last'.outcome = "returned" => search_last'.value = n
            /\ search_last'.outcome = "EngineSearchFailed" <=> n = Some(-1)
            /\ search_last'.outcome = "EngineFailedParse" <=> n = None
            /\ \A v \in search_last'.value : v >= 0]_vars

\* a search has returned a negative index
C16_Reached ==
    /\ search_last.outcome = "returned"
    /\ search_last.value = Some(-2)

----------------------------------------------------------------------------
(* C17 *)

\* C17: depth convention.  The search line transmitted for caller depth d
\* and requested engine e is "search <id> <depth>" with depth = 2*|d| and
\* id = 1 when d = 0, 6 when d < 0, and the id of e when d > 0.
C17_DepthConvention ==
    search.pc = "reply"
    => \E f \in {Fields(sent, <<>>)}, d \in {search.engine_depth} :
         /\ Len(f) = 3
         /\ f[1] = <<"s", "e", "a", "r", "c", "h">>
         /\ IntOf(f[2]) = Some(IF d = 0 THEN 1
                               ELSE IF d < 0 THEN 6
                               ELSE ENGINE_DICT[search.engine])
         /\ IntOf(f[3]) = Some(2 * (IF d < 0 THEN -d ELSE d))

\* a search line is out for depth -2 with the engine min_max requested
C17_Witness ==
    /\ search.pc = "reply"
    /\ search.engine_depth = -2
    /\ search.engine = "min_max"
    /\ sent = <<"s", "e", "a", "r", "c", "h", " ", "6", " ", "4", "\n">>

----------------------------------------------------------------------------
(* C18 *)

\* the counts read back from a wire string: the string split at its
\* spaces, each field read as an integer
ParseWire(str) ==
    [k \in DOMAIN Fields(str, <<>>) |-> IntOf(Fields(str, <<>>)[k])]

\* C18: wire round trip.  For every reachable board the wire string lists
\* the counts of the absolute indices 0..13 in order (side-0 holes, side-0
\* store, side-1 holes, side-1 store), and parsing the string back gives the
\* same count at every index.
C18_WireRoundTrip ==
    \E str \in {BoardStr(board)} :
       /\ Len(Fields(str, <<>>)) = NUMBER_OF_TOTAL_HOLES
       /\ \A i \in 0..(NUMBER_OF_TOTAL_HOLES - 1) :
             /\ Fields(str, <<>>)[i + 1] = Str(CountAt(board, i))
             /\ ParseWire(str)[i + 1] = Some(CountAt(board, i))

\* a board reached by play_move whose wire string has a two-digit count
C18_Witness ==
    /\ last.op = "play_move"
    /\ last.outcome = "ok"
    /\ \E i \in 0..(NUMBER_OF_TOTAL_HOLES - 1) : CountAt(board, i) >= 10

----------------------------------------------------------------------------
(* C19 *)

\* some user maps to the object in player_dict (the key None, which every
\* challenge or match with an AI side also sets, is not counted)
Mapped(obj) == \E user \in Users : player_dict[user] = obj

\* a pending challenge, or a match that is not over, that the manager holds
Engaging(obj) ==
    IF objects[obj].kind = "challenge"
    THEN Mapped(obj)
    ELSE ~objects[obj].terminal /\ (obj \in matches \/ Mapped(obj))

\* the engagements the user is a player of
EngagementsOf(user) ==
    {obj \in 1..Len(objects) :
        Engaging(obj) /\ user \in {objects[obj].player_1, objects[obj].player_2}}

\* add_challenge raises PlayerFound whenever one of its players maps to a
\* pending challenge or to a match that is not over, and leaves that
\* player's entry as it was
AddChallengeRefuses ==
    [][\A user \in Users :
          (/\ manager_last'.op = "add_challenge"
           /\ user \in {manager_last'.player_1, manager_last'.player_2}
           /\ InDict(player_dict, user)
           /\ ~objects[player_dict[user]].terminal)
          => /\ manager_last'.outcome = "PlayerFound"
             /\ player_dict'[user] = player_dict[user]]_vars

\* C19: one engagement per user.  Since add_challenge raises PlayerFound
\* for a player that maps to a pending challenge or to a non-terminal match
\* and does not replace that entry, no user is ever a player of two
\* non-terminal matches or pending challenges at the same time.
C19_OneEngagement ==
    \A user \in Users : Cardinality(EngagementsOf(user)) <= 1

\* a user whose first challenge is still pending for the other player has
\* been let into a second challenge after a delete_challenge
C19_Reached ==
    /\ manager_last.op = "add_challenge"
    /\ manager_last.outcome = "ok"
    /\ matches = {}
    /\ \E user \in Users : Cardinality(EngagementsOf(user)) = 2

----------------------------------------------------------------------------
(* C20 *)

\* C20: ruleset validation.  Constructing a ruleset with seeds_per_hole < 0
\* (or holes_per_side <= 0) fails with InvalidRuleset, so no Gamestate or
\* Board exists over such a ruleset.  (The number of holes per side is the
\* fixed 6 of Board.__init__ in this model; the statement is checked for
\* seeds_per_hole.)
C20_RulesetValidation == rule_set.seeds_per_hole >= 0

\* a Board built over a ruleset with seeds_per_hole = -1, its holes empty,
\* on which a call has been made
C20_Reached ==
    /\ rule_set.seeds_per_hole = -1
    /\ AllHolesZero(board)
    /\ last.op # "init"

----------------------------------------------------------------------------
(* C21 *)

\* the player to move has a hole to play
HasLegalMove(b, cp) == \E m \in HoleRange : valid_mask(b, cp)[m]

\* C21: terminal check after every move.  After every successful play_move,
\* whichever landing branch was taken, game_over is true iff some side's
\* holes were all zero at the end of the move; hence where game_over is
\* false both sides hold a seed in their holes and the player to move has a
\* legal move.
C21_TerminalCheck ==
    [][MoveResolved
       => /\ game_over' <=> TerminalCondition(ResolutionOfStep.board)
          /\ ~game_over' => /\ AnySeeds(board', 0)
                            /\ AnySeeds(board', 1)
                            /\ HasLegalMove(board', current_player')]_vars

\* a play_move has gone through on a Gamestate that terminate() had ended,
\* and has left seeds on both sides
C21_Reached ==
    /\ last.op = "play_move"
    /\ last.outcome = "ok"
    /\ game_over
    /\ AnySeeds(board, 0)
    /\ AnySeeds(board, 1)

----------------------------------------------------------------------------
(* C22 *)

\* The sowing segments of _play_move / _animate_move in order: for each, the
\* player sowing, the hole emptied (line 205), the index where its last seed
\* landed, and whether line 239 then re-entered the move (a relay).
RECURSIVE relay_chain(_, _, _, _, _)
relay_chain(rs, b, cp, relative_hole_index, segment) ==
    LET start == relative_index_to_absolute(cp, relative_hole_index)
        s == Sow(SetItem(b, start, 0), start, GetItem(b, start), cp, TRUE)
        h == s.hole_index
        relays == /\ h # PLAYER_TO_STORE_INDEX(cp)
                  /\ GetItem(s.board, h) # 1
                  /\ rs.do_relay_sowing
        this == [player |-> cp, source |-> start, landing |-> h, relay |-> relays]
    IN  IF relays
           /\ ~(absolute_index_to_relative(h) = relative_hole_index /\ s.board = b)
           /\ segment < MaxSegments
        THEN <<this>> \o relay_chain(rs, s.board, cp, absolute_index_to_relative(h),
                                     segment + 1)
        ELSE <<this>>

\* the chain of the move of this step
ChainOfStep == relay_chain(rule_set, board, current_player, last'.move, 1)

\* the chain is the one the move of this step went through
ChainIsOfStep ==
    [][(MoveResolved /\ ModelSound')
       => /\ Len(ChainOfStep) = last'.segments
          /\ ChainOfStep[Len(ChainOfStep)].landing = last'.hole_index]_vars

\* C22: relay source hole.  With do_relay_sowing, when the last seed lands
\* in a non-store hole h that then holds more than one seed, the next
\* segment picks up the seeds of exactly hole h, on the mover's side or the
\* opponent's, and the mover is the same for the whole chain.
C22_RelaySource ==
    [][MoveResolved
       => \E chain \in {ChainOfStep} :
             \A k \in 1..(Len(chain) - 1) :
                /\ chain[k + 1].source = chain[k].landing
                /\ chain[k + 1].player = chain[k].player]_vars

\* the first move 2 of a game with one seed per hole and relay sowing: its
\* third segment landed in hole 7, which then held 2 seeds and still holds
\* them, and the chain went on from hole 0
C22_Reached ==
    /\ last.op = "play_move"
    /\ last.outcome = "ok"
    /\ rule_set = [DefaultRuleset EXCEPT !.do_relay_sowing = TRUE,
                                         !.seeds_per_hole = 1]
    /\ last.move = 2
    /\ last.segments = 5
    /\ calls = 1
    /\ CountAt(board, 7) = 2
    /\ CountAt(board, 0) = 0

----------------------------------------------------------------------------
(* C23 *)

\* the k-th index after a when advancing cyclically modulo total_holes with
\* the store of the mover's opponent removed from the cycle
RECURSIVE PathIndex(_, _, _)
PathIndex(a, k, player) ==
    IF k = 0 THEN a
    ELSE LET prev == PathIndex(a, k - 1, player)
             next == (prev + 1) % NUMBER_OF_TOTAL_HOLES
         IN  IF next = PLAYER_TO_STORE_INDEX(1 - player)
             THEN (next + 1) % NUMBER_OF_TOTAL_HOLES
             ELSE next

\* the number of occurrences of i among the n indices after a
Occurrences(i, a, n, player) ==
    Cardinality({k \in 1..n : PathIndex(a, k, player) = i})

\* the move of this step was resolved by one sowing with no capture, no
\* relay and no terminal sweep
PlainSowing ==
    /\ MoveResolved
    /\ last'.segments = 1
    /\ last'.branch \in {"swap", "again"}
    /\ ~last'.swept

\* C23: sowing distribution.  A legal move from absolute hole a holding n
\* seeds that triggers no capture, relay or terminal sweep leaves in every
\* index i # a its old count plus the occurrences of i among the n indices
\* after a (cyclic, opponent's store left out), and in a exactly the
\* occurrences of a.
C23_SowingDistribution ==
    [][PlainSowing
       => \E a \in {relative_index_to_absolute(current_player, last'.move)} :
            \A i \in 0..(NUMBER_OF_TOTAL_HOLES - 1) :
               CountAt(board', i)
               = (IF i = a THEN 0 ELSE CountAt(board, i))
                 + Occurrences(i, a, CountAt(board, a), current_player)]_vars

\* side 0 has sown LapSeedsPerHole seeds from hole 2 all the way round:
\* the hole holds one seed again, side 1's store was passed over, and no
\* capture followed
C23_Witness ==
    /\ last.op = "play_move"
    /\ last.outcome = "ok"
    /\ last.branch = "swap"
    /\ last.segments = 1
    /\ last.move = 2
    /\ last.hole_index = 2
    /\ CountAt(board, 2) = 1
    /\ CountAt(board, 13) = 0
    /\ CountAt(board, 6) = 1
    /\ current_player = 1

----------------------------------------------------------------------------
(* C24 *)

\* C24: the opponent's store is skipped.  A play_move that does not trigger
\* the terminal sweep leaves the store of the player who did not move
\* unchanged, whatever the seed count of the source hole and whichever
\* branch (capture, relay) the move takes.
C24_OpponentStoreSkipped ==
    [][(MoveResolved /\ ~last'.swept)
       => CountAt(board', PLAYER_TO_STORE_INDEX(1 - current_player))
          = CountAt(board, PLAYER_TO_STORE_INDEX(1 - current_player))]_vars

\* side 0 has sown the 8 seeds of hole 5 past side 1's store, relayed on
\* through eight segments and ended with a capture; side 1's store is
\* still empty
C24_Witness ==
    /\ last.op = "play_move"
    /\ last.outcome = "ok"
    /\ calls = 1
    /\ last.move = 5
    /\ rule_set.seeds_per_hole = LapSeedsPerHole - 5
    /\ last.segments = 8
    /\ last.branch = "capture"
    /\ CountAt(board, 13) = 0
    /\ CountAt(board, 6) = 20

----------------------------------------------------------------------------
(* C25 *)

\* the last seed of the move of this step landed in hole h of the mover's
\* row, which was empty, opposite a mirror hole that held seeds, and captures
\* were allowed for that landing: the move made a capture
CaptureAt(r, h) ==
    /\ rule_set.allow_captures
    /\ MoveResolved
    /\ last'.hole_index = h
    /\ CountAt(r.landed, h) = 1
    /\ CountAt(r.landed, Mirror(h)) > 0
    /\ (rule_set.capture_on_one_cycle => r.first_cycle)

\* the counts a capture without capture_both leaves, from the counts at
\* the landing: the mirror's seeds in the mover's store, the mirror empty,
\* everything else (the landed seed in h too) as it was
MirrorOnlyCaptured(r, h, b) ==
    /\ CountAt(b, Mirror(h)) = 0
    /\ CountAt(b, h) = 1
    /\ CountAt(b, PLAYER_TO_STORE_INDEX(current_player)) =
           CountAt(r.landed, PLAYER_TO_STORE_INDEX(current_player))
           + CountAt(r.landed, Mirror(h))
    /\ \A i \in 0..13 :
           i \notin {Mirror(h), PLAYER_TO_STORE_INDEX(current_player)}
           => CountAt(b, i) = CountAt(r.landed, i)

\* C25 as stated: under allow_captures and not capture_both, a capture
\* moves exactly the mirror hole's seeds into the mover's store, leaves the
\* mirror at 0 and the single landed seed in h; after any capture
\* (capture_both or not) the turn is the other player's.
C25_CaptureMirrorOnly ==
    [][\A h \in OwnHoles(current_player) :
          \E r \in {ResolutionOfStep} :
             CaptureAt(r, h)
             => /\ last'.branch = "capture"
                /\ current_player' = 1 - current_player
                /\ ~rule_set.capture_both => MirrorOnlyCaptured(r, h, board')]_vars

\* C25, amended: the same for a capture that does not end the game.  A
\* capture that ends the game (a row is empty after it) is followed by the
\* terminal sweep: every hole, h included, ends at 0, the mover's store
\* holds its count at the landing plus the mirror's seeds plus what was left
\* in the mover's row, and current_player is 0 whoever moved.
C25_CaptureMirrorOnlyUnlessOver ==
    [][\A h \in OwnHoles(current_player) :
          \E r \in {ResolutionOfStep} :
             CaptureAt(r, h)
             => /\ last'.branch = "capture"
                /\ ~last'.swept
                   => /\ current_player' = 1 - current_player
                      /\ ~rule_set.capture_both
                         => MirrorOnlyCaptured(r, h, board')
                /\ last'.swept
                   => /\ current_player' = 0
                      /\ AllHolesZero(board')
                      /\ ~rule_set.capture_both
                         => board'.store[current_player] =
                               CountAt(r.landed, PLAYER_TO_STORE_INDEX(current_player))
                               + CountAt(r.landed, Mirror(h))
                               + SumHoles(r.landed, current_player)]_vars

\* player 0 has captured without capture_both: the landed seed is still in
\* its hole, the mirror is empty, the store holds the mirror's seeds and
\* player 1 is to move
C25_Witness ==
    /\ rule_set.allow_captures
    /\ ~rule_set.capture_both
    /\ last.op = "play_move"
    /\ last.outcome = "ok"
    /\ last.branch = "capture"
    /\ ~last.swept
    /\ last.hole_index \in OwnHoles(0)
    /\ CountAt(board, last.hole_index) = 1
    /\ CountAt(board, Mirror(last.hole_index)) = 0
    /\ board.store[0] >= 1
    /\ current_player = 1

----------------------------------------------------------------------------
(* C26 *)

OneCycleRules == rule_set.allow_captures /\ rule_set.capture_on_one_cycle

\* the resolution of the move of this step had capture_on_one_cycle been
\* false
ResolutionWithoutOneCycle ==
    IF last'.animate
    THEN animate_move([rule_set EXCEPT !.capture_on_one_cycle = FALSE],
                      board, current_player, last'.move)
    ELSE play_move_plain([rule_set EXCEPT !.capture_on_one_cycle = FALSE],
                         board, current_player, last'.move)

\* C26: under allow_captures and capture_on_one_cycle, a move whose last
\* sowing segment passed the mover's own store and ended in a hole never
\* captures: the board is left as the sowing left it and the turn passes;
\* a move whose last segment did not pass the mover's store ends as it
\* does with capture_on_one_cycle false (and captures when its last seed
\* lands in an empty hole of the mover's row opposite a non-empty mirror).
C26_CaptureOnOneCycle ==
    [][(OneCycleRules /\ MoveResolved)
       => \E r \in {ResolutionOfStep} :
            /\ (~r.first_cycle
                 /\ r.hole_index # PLAYER_TO_STORE_INDEX(current_player))
               => /\ last'.branch = "swap"
                  /\ r.board = r.landed
                  /\ ~last'.swept
                     => /\ board' = r.landed
                        /\ current_player' = 1 - current_player
            /\ r.first_cycle
               => \E q \in {ResolutionWithoutOneCycle} :
                    /\ last'.branch = q.branch
                    /\ last'.hole_index = q.hole_index
                    /\ r.board = q.board
                    /\ r.current_player = q.current_player
                    /\ ~last'.swept
                       => /\ board' = q.board
                          /\ current_player' = q.current_player
                    /\ (/\ r.hole_index \in OwnHoles(current_player)
                        /\ CountAt(r.landed, r.hole_index) = 1
                        /\ CountAt(r.landed, Mirror(r.hole_index)) > 0)
                       => last'.branch = "capture"]_vars

\* the first move sowed the 13 seeds of hole 2 once around the board and
\* past store 6 into hole 2 itself, opposite the 14 seeds of hole 10:
\* nothing was captured and player 1 is to move
C26_Witness ==
    /\ OneCycleRules
    /\ last.op = "play_move"
    /\ last.outcome = "ok"
    /\ calls = 1
    /\ last.move = 2
    /\ last.hole_index = 2
    /\ last.branch = "swap"
    /\ CountAt(board, 2) = 1
    /\ CountAt(board, 10) = LapSeedsPerHole + 1
    /\ CountAt(board, 6) = 1
    /\ current_player = 1

\* a capture has been made under capture_on_one_cycle by a sowing that did
\* not pass the mover's store
C26_FirstCycleCapture ==
    /\ OneCycleRules
    /\ last.op = "play_move"
    /\ last.branch = "capture"

----------------------------------------------------------------------------
(* C27 *)

\* C27: is_valid_move excludes the stores.  For every absolute index and
\* either player to move, is_valid_move returns true iff the index is one
\* of that player's six holes: false for the player's own store, for the
\* opponent's store and for every hole of the opponent.
C27_HoleOwnership ==
    [][last'.op = "is_valid_move"
       => \A answer \in returned' :
             answer <=> last'.move \in OwnHoles(current_player)]_vars

----------------------------------------------------------------------------
(* C28 *)

\* C28: index mapping round trip.  For the player to move p and each rel in
\* 0..5, relative_index_to_absolute returns rel for p = 0 and rel + 7 for
\* p = 1, which is one of p's holes and never a store, and
\* absolute_index_to_relative takes it back to rel.
C28_IndexRoundTrip ==
    [][(last'.op = "relative_index_to_absolute" /\ last'.move \in 0..5)
       => /\ returned' # None
          /\ \A absolute \in returned' :
                /\ current_player = 0 => absolute = last'.move
                /\ current_player = 1 => absolute = last'.move + 6 + 1
                /\ absolute \in OwnHoles(current_player)
                /\ absolute \notin {6, 13}
                /\ absolute_index_to_relative(absolute) = last'.move]_vars

\* relative_index_to_absolute(5) has returned 12 with player 1 to move
C28_Witness ==
    /\ last.op = "relative_index_to_absolute"
    /\ last.move = 5
    /\ current_player = 1
    /\ returned = {12}
    /\ calls >= 1

----------------------------------------------------------------------------
(* C29 *)

IsPrefix(p, str) == Len(p) <= Len(str) /\ SubSeq(str, 1, Len(p)) = p

IsBoardCommand(line) == IsPrefix(<<"b", "o", "a", "r", "d", " ">>, line)

IsSearchCommand(line) == IsPrefix(<<"s", "e", "a", "r", "c", "h", " ">>, line)

\* the search commands among the lines a search call has written
SearchCommands(lines) == {k \in DOMAIN lines : IsSearchCommand(lines[k])}

\* C29: board push, acknowledgement and order.  A search call given a game
\* state writes the board command first.  When the 0.5 s wait after it ends
\* with a line on the queue, the call ends with EngineFailedParse and has
\* written no search command.  When it ends with the queue empty, the call
\* goes on (for an engine of ENGINE_DICT) to write one search command after
\* the board command; while it waits for the reply and when it ends,
\* nothing more is written: a call never writes two search commands.
C29_BoardPushOrder ==
    [][/\ (search.pc = "idle" /\ search'.pc = "ack")
          => written' = <<BoardLine(board, current_player)>>
       /\ (search.pc = "ack" /\ search' # search /\ output_queue # <<>>)
          => /\ search'.pc = "idle"
             /\ search_last'.outcome = "EngineFailedParse"
             /\ search_last'.line = Head(output_queue)
             /\ written' = written
             /\ SearchCommands(written') = {}
       /\ (search.pc = "ack" /\ search' # search /\ output_queue = <<>>
           /\ EngineUsed(search.engine, search.engine_depth) \in DOMAIN ENGINE_DICT)
          => /\ search'.pc = "reply"
             /\ Len(written') = 2
             /\ IsBoardCommand(written'[1])
             /\ written'[1] = written[1]
             /\ SearchCommands(written') = {2}
       /\ search.pc = "reply" => written' = written
       /\ Cardinality(SearchCommands(written')) <= 1
       /\ \A k \in DOMAIN written' : IsBoardCommand(written'[k]) => k = 1]_vars

\* a call given the game state has pushed the board, seen the queue stay
\* empty, written its search command and is waiting for the reply
C29_Witness ==
    /\ search.pc = "reply"
    /\ Len(written) = 2
    /\ written[1] = BoardLine(board, current_player)
    /\ written[2] = sent
    /\ IsSearchCommand(sent)
    /\ output_queue = <<>>

\* a call given the game state has ended with EngineFailedParse on the
\* line that was on the queue after the board command; only the board
\* command was written
C29_PushRefused ==
    /\ search.pc = "idle"
    /\ search_last.outcome = "EngineFailedParse"
    /\ written = <<BoardLine(board, current_player)>>
    /\ search_last.line = <<"x", "\n">>

----------------------------------------------------------------------------
(* C30 *)

\* C30: Board index bounds.  __getitem__ and __setitem__ with an index
\* outside 0..13 raise and leave every hole, both stores and the buffer as
\* they were; __getitem__ with an index inside 0..13 returns the count of
\* exactly that hole or store (6 is side 0's store, 13 side 1's) and
\* changes nothing.
C30_BoardIndexBounds ==
    [][last'.op \in {"__getitem__", "__setitem__"}
       => /\ last'.move \notin 0..13
             => /\ last'.outcome # "ok"
                /\ board' = board
                /\ returned' = None
          /\ (last'.op = "__getitem__" /\ last'.move \in 0..13)
             => /\ last'.outcome = "ok"
                /\ returned' = {CountAt(board, last'.move)}
                /\ board' = board]_vars

\* board[6] has returned 1 after a seed was taken into the buffer and set
\* into side 0's store; side 1's store is empty
C30_Witness ==
    /\ last.op = "__getitem__"
    /\ last.move = 6
    /\ last.outcome = "ok"
    /\ returned = {1}
    /\ board.store[0] = 1
    /\ board.store[1] = 0
    /\ board.buffer = 0

\* a set with an index out of range has raised on a board that holds
\* seeds in its buffer
C30_SetRaised ==
    /\ last.op = "__setitem__"
    /\ last.move = 14
    /\ last.outcome = "TypeError"
    /\ board.buffer > 0

----------------------------------------------------------------------------
(* C31 *)

\* C31: move resolution terminates.  Under every combination of the rule
\* flags and from every reachable position, a play_move on a legal move
\* ends after finitely many sowing segments: the relay chain never
\* re-enters the sowing without end (RecursionError in Python).
C31_MoveTerminates ==
    [][last'.op = "play_move" => last'.outcome # "RecursionError"]_vars

\* a relay chain has re-entered the sowing from an empty hole of the mover
C31_Reached ==
    /\ last.op = "play_move"
    /\ last.outcome = "RecursionError"
    /\ rule_set.do_relay_sowing
    /\ last.branch = "relay"

----------------------------------------------------------------------------
(* C32 *)

\* this step ends a search call that began, after a search that ended with
\* EngineTimedOut, with a line of the engine already on the queue
EndsAfterLateReply ==
    /\ search.pc # "idle"
    /\ search'.pc = "idle"
    /\ search.stale
    /\ search_last.outcome = "EngineTimedOut"

\* C32: stale replies are not consumed by later requests.  After a search
\* ended with EngineTimedOut and the engine then wrote a line, the next
\* call is not ended by that line: its board push is not failed by it and
\* it does not take it as the reply to its own search.  (A call reads one
\* line at most and the queue is first-in first-out: the line a call that
\* began with a line on the queue reads is that line.)
C32_NoStaleReply ==
    [][EndsAfterLateReply
       => /\ search_last'.outcome \notin {"EngineFailedParse", "returned",
                                          "EngineSearchFailed"}
          /\ search_last'.line = <<>>
          /\ output_queue' = output_queue]_vars

\* a search with a game state has ended with EngineFailedParse in the wait
\* after its board push, on the line "3" that the engine wrote after the
\* search before it had timed out
C32_Reached ==
    /\ search.pc = "idle"
    /\ searches = 2
    /\ search_last.outcome = "EngineFailedParse"
    /\ search_last.line = <<"3", "\n">>
    /\ written = <<BoardLine(board, current_player)>>
    /\ output_queue = <<>>

----------------------------------------------------------------------------
(* C33 *)

\* Match.winner (match.py 120-135) on a match over this Gamestate: raises
\* MatchNotOver when Gamestate.result is None, otherwise picks the player
\* (0, 1) or None (TIE) by the result
winner(res) ==
    IF res = None
    THEN [outcome |-> "MatchNotOver", value |-> None]
    ELSE [outcome |-> "ok", value |-> res]

\* C33: the terminal state is fully populated.  Whenever game_over is true
\* (also after Gamestate.terminate()), result is one of 0, 1, 2 and both
\* scores are set, so that Match.winner does not raise MatchNotOver;
\* whenever game_over is false, result and both scores are None.
C33_TerminalPopulated ==
    /\ game_over
       => /\ result \in {Some(0), Some(1), Some(TIE)}
          /\ score_1 # None
          /\ score_2 # None
          /\ winner(result).outcome = "ok"
    /\ ~game_over
       => /\ result = None
          /\ score_1 = None
          /\ score_2 = None

\* terminate() has been called on a fresh Gamestate: game_over is true,
\* result and scores are still None and Match.winner raises
C33_Reached ==
    /\ last.op = "terminate"
    /\ calls = 1
    /\ game_over
    /\ result = None
    /\ score_1 = None
    /\ score_2 = None
    /\ winner(result).outcome = "MatchNotOver"

----------------------------------------------------------------------------
(* C34 *)

\* How play_move(move, animate) on the current state ends: the exception
\* that leaves it or "ok", and the hole counts, store counts,
\* current_player, game_over, result and scores it leaves (lines 141-148)
MoveEnd(move, animate) ==
    LET r == Resolve(move, animate)
        t == IF r.outcome # "ok"
             THEN [board |-> r.board, current_player |-> current_player,
                   game_over |-> game_over, result |-> result,
                   score_1 |-> score_1, score_2 |-> score_2,
                   outcome |-> r.outcome, swept |-> FALSE]
             ELSE check_terminal([board |-> r.board,
                                  current_player |-> r.current_player,
                                  game_over |-> game_over, result |-> result,
                                  score_1 |-> score_1, score_2 |-> score_2,
                                  outcome |-> "ok", swept |-> FALSE])
    IN  [outcome |-> t.outcome, holes |-> t.board.holes,
         store |-> t.board.store, current_player |-> t.current_player,
         game_over |-> t.game_over, result |-> t.result,
         score_1 |-> t.score_1, score_2 |-> t.score_2]

\* the moves play_move accepts in the current state
LegalMoves == {move \in HoleRange : valid_mask(board, current_player)[move]}

\* C34: animated and plain move resolution agree.  From every state, under
\* every combination of the rule flags, and for every legal move,
\* play_move with animate=True and with animate=False end the same way and
\* leave the same hole and store counts, current_player, game_over, result
\* and scores.
C34_AnimatedPlainAgree ==
    \A move \in LegalMoves : MoveEnd(move, TRUE) = MoveEnd(move, FALSE)

\* a state, reached by an animated and a plain move, in which one legal
\* move is resolved by a capture after a relay segment and another one
\* ends in the mover's store, each the same way animated and plain
C34_Witness ==
    /\ calls >= 2
    /\ \E m1, m2 \in LegalMoves :
          /\ Resolve(m1, TRUE).branch = "capture"
          /\ Resolve(m1, TRUE).segments > 1
          /\ Resolve(m1, FALSE).branch = "capture"
          /\ MoveEnd(m1, TRUE) = MoveEnd(m1, FALSE)
          /\ MoveEnd(m1, TRUE).store # board.store
          /\ Resolve(m2, TRUE).hole_index = PLAYER_TO_STORE_INDEX(current_player)
          /\ MoveEnd(m2, TRUE) = MoveEnd(m2, FALSE)

----------------------------------------------------------------------------
(* C35 *)

\* the hole and store counts of a board
CountsOf(b) == [holes |-> b.holes, store |-> b.store]

\* the last seed of the move of this step landed in a hole that was empty
\* (it holds 1 after the landing) and that is either in the opponent's row
\* or in the mover's row opposite an empty mirror hole
EmptyLandingNoCapture(r) ==
    /\ MoveResolved
    /\ CountAt(r.landed, r.hole_index) = 1
    /\ \/ r.hole_index \in OwnHoles(1 - current_player)
       \/ /\ r.hole_index \in OwnHoles(current_player)
          /\ CountAt(r.landed, Mirror(r.hole_index)) = 0

\* the landing hole is in the mover's row and its mirror holds a seed
CaptureGuard(r) ==
    /\ r.hole_index \in OwnHoles(current_player)
    /\ CountAt(r.landed, Mirror(r.hole_index)) >= 1

\* C35 as stated: the mover's store gets seeds other than by sowing (it
\* holds more after the call than when the last seed had landed) only when
\* the landing hole is in the mover's own row and the mirror hole holds at
\* least one seed; when the last seed lands in an empty hole of the
\* opponent's row, or in an empty own hole whose mirror is empty, the
\* counts after the call are those at the landing and the turn is the
\* other player's.
C35_CaptureGuard ==
    [][\E r \in {ResolutionOfStep} :
          /\ (MoveResolved
               /\ board'.store[current_player] > r.landed.store[current_player])
             => CaptureGuard(r)
          /\ EmptyLandingNoCapture(r)
             => /\ CountsOf(board') = CountsOf(r.landed)
                /\ current_player' = 1 - current_player]_vars

\* C35, amended: the move resolution (_play_move, _animate_move) moves
\* seeds after the landing only under the capture guard, and an empty
\* landing outside the guard moves nothing and passes the turn; when the
\* move does not end the game these are the counts and the player after
\* the call.  When the move ends the game the terminal sweep follows: every
\* hole is emptied into the store on its side and current_player is 0.
C35_CaptureGuardUnlessOver ==
    [][\E r \in {ResolutionOfStep} :
          /\ (MoveResolved /\ CountsOf(r.board) # CountsOf(r.landed))
             => /\ CaptureGuard(r)
                /\ rule_set.allow_captures
                /\ last'.branch = "capture"
          /\ (MoveResolved /\ ~last'.swept
               /\ board'.store[current_player] > r.landed.store[current_player])
             => CaptureGuard(r)
          /\ EmptyLandingNoCapture(r)
             => /\ CountsOf(r.board) = CountsOf(r.landed)
                /\ r.current_player = 1 - current_player
                /\ last'.branch = "swap"
                /\ ~last'.swept
                   => /\ CountsOf(board') = CountsOf(r.landed)
                      /\ current_player' = 1 - current_player
                /\ last'.swept
                   => /\ AllHolesZero(board')
                      /\ Counted(board') = Counted(r.landed)
                      /\ current_player' = 0]_vars

\* with captures allowed, player 0's last seed has landed in an empty
\* hole of player 1's row opposite a hole that holds seeds: nothing was
\* captured and player 1 is to move
C35_Witness ==
    /\ rule_set.allow_captures
    /\ last.op = "play_move"
    /\ last.outcome = "ok"
    /\ last.branch = "swap"
    /\ last.hole_index \in OwnHoles(1)
    /\ CountAt(board, last.hole_index) = 1
    /\ CountAt(board, Mirror(last.hole_index)) >= 1
    /\ board.store[0] = 1
    /\ current_player = 1

\* a move whose last seed landed in an empty hole outside the capture
\* guard has ended the game: the sweep has emptied the holes
C35_SweptAfterEmptyLanding ==
    /\ last.op = "play_move"
    /\ last.branch = "swap"
    /\ last.swept
    /\ last.hole_index \notin StoreIndices
    /\ AllHolesZero(board)
    /\ current_player = 0

----------------------------------------------------------------------------
(* C36 *)

\* the last seed of the move of this step landed in the mover's own store
\* and allow_multiple_laps is false
OwnStoreLandingNoLaps(r) ==
    /\ MoveResolved
    /\ ~rule_set.allow_multiple_laps
    /\ r.hole_index = PLAYER_TO_STORE_INDEX(current_player)

\* C36 as stated: under allow_multiple_laps=false a move whose last seed
\* lands in the mover's own store passes the turn to the other player and
\* triggers neither a capture nor a relay segment (the counts after the
\* call are those at the landing), whatever the store's count and whatever
\* allow_captures and do_relay_sowing are.
C36_OwnStorePassesTurn ==
    [][\E r \in {ResolutionOfStep} :
          OwnStoreLandingNoLaps(r)
          => /\ current_player' = 1 - current_player
             /\ last'.branch = "swap"
             /\ CountsOf(board') = CountsOf(r.landed)]_vars

\* C36, amended: the move resolution passes the turn and moves no seed
\* after the landing; these are the player and the counts after the call
\* unless the move ends the game, and then the terminal sweep follows and
\* current_player is 0.
C36_OwnStorePassesTurnUnlessOver ==
    [][\E r \in {ResolutionOfStep} :
          OwnStoreLandingNoLaps(r)
          => /\ r.current_player = 1 - current_player
             /\ last'.branch = "swap"
             /\ CountsOf(r.board) = CountsOf(r.landed)
             /\ ~last'.swept
                => /\ current_player' = 1 - current_player
                   /\ CountsOf(board') = CountsOf(r.landed)
             /\ last'.swept
                => /\ current_player' = 0
                   /\ AllHolesZero(board')
                   /\ Counted(board') = Counted(r.landed)]_vars

\* under allow_multiple_laps=false, with captures and relay sowing on,
\* player 0's last seed has landed in store 6, which held seeds already:
\* player 1 is to move
C36_Witness ==
    /\ ~rule_set.allow_multiple_laps
    /\ rule_set.allow_captures
    /\ rule_set.do_relay_sowing
    /\ last.op = "play_move"
    /\ last.outcome = "ok"
    /\ last.hole_index = PLAYER_TO_STORE_INDEX(0)
    /\ last.branch = "swap"
    /\ board.store[0] >= 2
    /\ current_player = 1

\* under allow_multiple_laps=false, player 0's last seed has landed in
\* store 6 and the move has ended the game: current_player is 0
C36_OverAfterOwnStore ==
    /\ ~rule_set.allow_multiple_laps
    /\ last.op = "play_move"
    /\ last.hole_index = PLAYER_TO_STORE_INDEX(0)
    /\ last.swept
    /\ game_over
    /\ current_player = 0

----------------------------------------------------------------------------
(* C37 *)

\* C37: at most one move per prompt.  Of the button interactions handled on
\* one MoveView, at most one changes the Gamestate, also when a second
\* interaction starts while the first is suspended at its await; so a
\* second press plays no move in a later turn.
C37_OneMovePerPrompt == view.played <= 1

\* two presses of the player to move have been handled on one prompt, the
\* second one started while the first was suspended in message.edit, both
\* have gone through send_reply, and neither has changed the Gamestate
C37_Witness ==
    /\ view.made
    /\ presses[1].pc = "done"
    /\ presses[2].pc = "done"
    /\ presses[1].outcome = "TypeError"
    /\ presses[2].outcome = "TypeError"
    /\ presses[1].user = view.player
    /\ presses[2].user = view.player
    /\ presses[2].overlapped
    /\ presses[1].idx # presses[2].idx
    /\ view.played = 0
    /\ calls = 0
    /\ board = NewBoard(rule_set)
    /\ current_player = 0

----------------------------------------------------------------------------
(* C38 *)

\* this step is the interaction k: a user presses a button
Pressed(k) == presses[k].pc = "none" /\ presses'[k].pc # "none"

\* C38: only the player to move can move.  An interaction on the move
\* prompt by a user who is not the player whose turn it is (the opponent or
\* a third party) is refused by interaction_check: it ends there, with the
\* message sent, and the Gamestate is not changed.
C38_OnlyPlayerToMove ==
    [][\A k \in 1..MaxPresses :
          (Pressed(k)
           /\ presses'[k].user # match_current_player(view.player_1,
                                                      view.player_2,
                                                      current_player))
          => /\ presses'[k].pc = "done"
             /\ presses'[k].outcome \in
                   {"Wait your turn!",
                    "You are not allowed to interact with this game."}
             /\ UNCHANGED game_vars]_vars

\* on a prompt built for player_2 after one move, the opponent and a
\* third user have pressed a button and both were refused
C38_Witness ==
    /\ view.made
    /\ calls = 1
    /\ current_player = 1
    /\ view.player = view.player_2
    /\ view.player_1 # view.player_2
    /\ view.player_1 # NoUser
    /\ presses[1].pc = "done"
    /\ presses[1].user = view.player_1
    /\ presses[1].outcome = "Wait your turn!"
    /\ presses[2].pc = "done"
    /\ presses[2].user \notin {view.player_1, view.player_2}
    /\ presses[2].outcome = "You are not allowed to interact with this game."

----------------------------------------------------------------------------
(* C39 *)

\* this step is an add_challenge call that raised PlayerFound
AddChallengeRaised ==
    /\ manager_last'.op = "add_challenge"
    /\ manager_last'.outcome = "PlayerFound"

\* C39: add_challenge is atomic on failure.  When add_challenge raises
\* PlayerFound (for player_1 or for player_2) the player-to-entry map is
\* exactly as before the call; in particular a terminal entry of player_1
\* is not removed when the call fails because player_2 is occupied.
C39_AddChallengeAtomic ==
    [][AddChallengeRaised => player_dict' = player_dict]_vars

\* add_challenge(player_1, player_2) has raised PlayerFound for an occupied
\* player_2 and player_1, whose entry was a match that is over, is no
\* longer in the map
C39_Reached ==
    /\ manager_last.op = "add_challenge"
    /\ manager_last.outcome = "PlayerFound"
    /\ manager_last.player_1 # NoUser
    /\ ~InDict(player_dict, manager_last.player_1)
    /\ InDict(player_dict, manager_last.player_2)
    /\ ~objects[player_dict[manager_last.player_2]].terminal
    /\ \E m \in matches :
          objects[m].terminal /\ objects[m].player_1 = manager_last.player_1

----------------------------------------------------------------------------
(* C40 *)

\* 2 * holes_per_side * seeds_per_hole
TotalSeeds == 2 * NUMBER_OF_HOLES_PER_SIDE * rule_set.seeds_per_hole

\* the seeds of a board: in its holes, in its stores and in hand
Accounted(b) == Counted(b) + b.buffer

\* C40: in-hand seeds are accounted for.  The board's buffer is empty
\* before and after every play_move that resolved its move (also after a
\* capture and after the terminal sweep), no set of the call needed more
\* seeds than the buffer held, and in every snapshot an animated move
\* records the hole counts plus the store counts plus the buffer size are
\* 2 * holes_per_side * seeds_per_hole.
C40_BufferAccounted ==
    [][MoveResolved
       => /\ board.buffer = 0
          /\ board'.buffer = 0
          /\ ~board'.raised
          /\ Counted(board') = TotalSeeds
          /\ last'.animate
             => \E r \in {ResolutionOfStep} :
                   \A i \in 1..Len(r.stack) :
                      /\ ~r.stack[i].board.raised
                      /\ Accounted(r.stack[i].board) = TotalSeeds]_vars

\* an animated move has ended with a capture, and the recorded snapshots
\* include one taken with seeds in hand and one taken after the capture
C40_Witness ==
    /\ last.op = "play_move"
    /\ last.animate
    /\ last.outcome = "ok"
    /\ last.branch = "capture"
    /\ board.buffer = 0
    /\ Len(board_stack) = MaxStack
    /\ board_stack[MaxStack].board.buffer = 0
    /\ CountsOf(board_stack[MaxStack].board) = CountsOf(board)
    /\ \E m \in LegalMoves :
          \E i \in 1..Len(Resolve(m, TRUE).stack) :
             /\ Resolve(m, TRUE).stack[i].board.buffer > 0
             /\ Accounted(Resolve(m, TRUE).stack[i].board) = TotalSeeds

\* an animated move has ended the game: the terminal sweep has run and the
\* buffer is empty
C40_SweptBufferEmpty ==
    /\ last.op = "play_move"
    /\ last.animate
    /\ last.swept
    /\ board.buffer = 0
    /\ AllHolesZero(board)
    /\ Counted(board) = TotalSeeds

====
